---- MODULE Spec2Model ----
(***************************************************************************)
(* Model of the jspsych-tobii server core: the calibration/validation      *)
(* session registry (calibration.py, CalibrationManager), the tracker      *)
(* adapter it drives (adapters/base.py, adapters/mock.py), the             *)
(* lock-protected sections executed by concurrent callers, the sample      *)
(* store (data_buffer.py), the clock synchronisation (time_sync.py) and    *)
(* the message loop of a connection (websocket_handler.py) and the server  *)
(* that owns the connections (server.py).                                  *)
(*                                                                         *)
(* Spec        every CalibrationManager method is one atomic step: the     *)
(*             methods are synchronous and are called from the single      *)
(*             asyncio event loop (websocket_handler.py process_message).  *)
(* SpecThreads start_calibration and remove_session executed statement by  *)
(*             statement by one thread per client, serialised only by      *)
(*             threading.Lock (_calibration_lock).                         *)
(* SpecVal     the validation calls of one connection, all gaze lists.     *)
(* SpecCal     the calibration calls of two connections, two targets.      *)
(* SpecPair    all registry calls of two connections.                      *)
(* SpecBuf     ingestion, capacity eviction and periodic cleanup.          *)
(* SpecQuery   get_data and get_device_clock_offset on ingested samples.   *)
(* SpecConn    the message loops: malformed, unknown and valid messages.   *)
(* SpecSync    TimeSync: set_offset and the two conversions.               *)
(* SpecReq     queued requests with and without requestId, two loops.      *)
(* SpecStream  start / stop tracking, the producer, the scheduled pushes.  *)
(* SpecClose   calibration and validation calls and every way to close.    *)
(* SpecSan     responses of every shape sent through sanitize_for_json.    *)
(* SpecCalOk   SpecCal with an adapter that succeeds whenever it can.      *)
(* SpecProd    add_sample called by two producer threads at a time.        *)
(* SpecMsg     process_message's dispatch of the calibration messages.     *)
(* SpecServer  TobiiServer: connections, run_forever and shutdown.         *)
(***************************************************************************)
EXTENDS Integers, Sequences, FiniteSets, TLC

\* ----------------------------------------------------------------- bounds
NumClients == 2
MaxCalPoints == 2
MaxValPoints == 3
\* DataBuffer(max_size=...): the capacity of the sample buffer
MaxCapacity == 3
\* the capacity of the offset window, deque(maxlen=200) in the code
OffsetWindow == 3
\* DataBuffer(max_duration_ms=...), in clock ticks
MaxDurationMs == 2
\* the server clock runs from 0 to MaxTime
MaxTime == 4
\* error replies counted per connection
MaxErrors == 2
\* add_sample calls made on one buffer
MaxAdds == 5

\* producer threads calling add_sample at the same time
MaxProducers == 2

\* -------------------------------------------------------------- constants
\* compute_validation: "if len(session.validation_points) < 3"
MinValidationPoints == 3
\* SACCADE_SKIP_RATIO = 0.3, kept as the exact fraction 3/10
SaccadeSkipNum == 3
SaccadeSkipDen == 10

Clients == 1..NumClients
\* Optional[str] None for _active_calibration_client
None == 0

\* ------------------------------------------------------------------ inputs
\* calibration / validation target points (x, y in tenths of the screen)
PointInputs == {[x |-> 1, y |-> 1], [x |-> 5, y |-> 5]}
CalPointInputs == {[x |-> 1, y |-> 1]}
ValPointInputs == {[x |-> 1, y |-> 1]}
TimestampInputs == {1000}
\* a gaze sample as collect_validation_point receives it: the validity
\* flags decide which samples compute_validation keeps; xy tells whether
\* the sample carries the "x" and "y" entries compute_validation reads from
\* every sample it keeps (the message layer passes the list on unexamined)
SV == [leftValid |-> TRUE, rightValid |-> FALSE, xy |-> TRUE]
SR == [leftValid |-> FALSE, rightValid |-> TRUE, xy |-> TRUE]
SN == [leftValid |-> FALSE, rightValid |-> FALSE, xy |-> TRUE]
SX == [leftValid |-> TRUE, rightValid |-> FALSE, xy |-> FALSE]
\* gaze_samples lists: empty, valid only inside the skipped prefix, valid
\* after the skipped prefix, too short for any skip, valid without
\* coordinates
GazeInputs == {<<>>, <<SV, SN, SN, SN>>, <<SN, SN, SR, SN>>, <<SN>>, <<SX>>}
RegistryGazeInputs == {<<>>}

\* adapter primitive outcomes: returned True / returned False / raised
Outcomes == {"ok", "fail", "raise"}

\* ------------------------------------------------------------ error texts
ErrNone == ""
ErrBusy == "Another client is currently calibrating"
ErrCalNotActive == "Calibration not active"
ErrNotOwner == "This client does not own the active calibration"
ErrException == "exception"
ErrNotConnected == "Tracker not connected"
ErrValNotActive == "Validation not active"
ErrNeedMorePoints == "Need at least 3 validation points"
ErrNoValidSamples == "No valid gaze samples collected"

VARIABLES
    sessions,                  \* CalibrationManager._sessions (dict)
    active_calibration_client, \* CalibrationManager._active_calibration_client
    connected,                 \* adapter._connected
    in_calibration_mode,       \* adapter._in_calibration_mode
    last,                      \* the last completed call and its response
    pc,                        \* SpecThreads: position of each client's thread
    lock_owner,                \* SpecThreads: holder of _calibration_lock
    ret,                       \* SpecThreads: response of each thread's call
    hist,                      \* SpecThreads: bookkeeping about overlapping calls
    now,                       \* time.time() * 1000, the server clock
    buffer,                    \* DataBuffer.buffer (deque, maxlen = max_size)
    bc_offsets,                \* DataBuffer._bc_offsets (deque of offsets)
    pending,                   \* add_sample: the stamped sample not yet appended
    num_added,                 \* the add_sample calls completed so far
    cleaned,                   \* cleanup_old_data or clear has been called
    reply,                     \* the reply to the last message of the store / connection layer
    conn_active,               \* WebSocketHandler.active, per connection
    error_replies,             \* the error replies sent on each connection so far
    offset,                    \* TimeSync.offset
    synced,                    \* TimeSync.synced
    tracking,                  \* adapter._tracking, what is_tracking() returns
    gaze_callback,             \* TobiiManager.gaze_callback: the connection whose on_gaze_data it is
    subscribed,                \* the live connections whose last start_tracking / stop_tracking was a successful start_tracking
    tasks,                     \* the send_gaze_data coroutines handed to the event loop, oldest first
    wire,                      \* what websocket.send has written on each connection, oldest first
    inbox,                     \* the messages that arrived on each connection and are not yet processed
    arrived,                   \* the number of messages that arrived on each connection
    payload,                   \* a response under construction, as a tree of Python values
    server                     \* TobiiServer: running, clients, and the positions of run_forever and shutdown

bufVars == <<now, buffer, bc_offsets, pending, num_added, cleaned>>
connVars == <<reply, conn_active, error_replies>>
syncVars == <<offset, synced>>
streamVars == <<tracking, gaze_callback, subscribed, tasks, wire, inbox, arrived, payload>>
srvVars == <<server>>
extVars == <<bufVars, connVars, syncVars, streamVars, srvVars>>
regVars == <<sessions, active_calibration_client, connected, in_calibration_mode>>
threadVars == <<pc, lock_owner, ret, hist>>
vars == <<sessions, active_calibration_client, connected, in_calibration_mode, last, pc, lock_owner, ret, hist, now, buffer, bc_offsets, pending, num_added, cleaned, reply, conn_active, error_replies, offset, synced, tracking, gaze_callback, subscribed, tasks, wire, inbox, arrived, payload, server>>

\* ------------------------------------------------------------- the session
\* CalibrationSession.__init__
CalibrationSession == [calibration_points |-> <<>>, validation_points |-> <<>>, calibration_active |-> FALSE, validation_active |-> FALSE]

\* dict assignment d[k] = v
Put(d, k, v) == [j \in (DOMAIN d) \cup {k} |-> IF j = k THEN v ELSE d[j]]

\* del d[k]
Del(d, k) == [j \in (DOMAIN d) \ {k} |-> d[j]]

\* _get_or_create_session: the registry after the call (the session is
\* created when absent)
get_or_create_session(ss, c) == IF c \in DOMAIN ss THEN ss ELSE Put(ss, c, CalibrationSession)

\* ------------------------------------------------------------- the adapter
\* outcomes a primitive can produce: it returns True only when its own
\* precondition holds (connected, resp. in calibration mode); it can always
\* return False or raise (device error)
AdapterOutcomes(pre) == IF pre THEN Outcomes ELSE Outcomes \ {"ok"}

\* adapter.start_calibration: _in_calibration_mode after the call
adapter_start_calibration(mode, o) == IF o = "ok" THEN TRUE ELSE mode

\* calibration mode kept by leave_calibration_mode
adapter_leave_calibration_mode_kept(mode, o) == mode

\* adapter.leave_calibration_mode: _in_calibration_mode after the call
adapter_leave_calibration_mode(mode, o) == IF o = "ok" THEN FALSE ELSE mode

\* the point argument recorded for calls that take none
NoPoint == [x |-> 0, y |-> 0, timestamp |-> 0]

\* the response of a completed call, with the call it answers and the
\* outcomes of the adapter primitives the call invoked ("na": not invoked)
\* and the point the call was given
Response(op, c, success, error, adapter, leave, quality) == [op |-> op, client |-> c, success |-> success, error |-> error, adapter |-> adapter, leave |-> leave, pointQuality |-> quality, pointData |-> <<>>, point |-> NoPoint]

NoCall == [op |-> "init", client |-> None, success |-> FALSE, error |-> ErrNone, adapter |-> "na", leave |-> "na", pointQuality |-> <<>>, pointData |-> <<>>, point |-> NoPoint]

\* what is remembered about a thread's start_calibration call until its
\* response is taken: free, nobody held the calibration lock when the call
\* was made; released, a disconnect released the lock while the call ran;
\* peers, the clients whose start_calibration calls ran while this call ran
NoHist == [free |-> FALSE, released |-> FALSE, peers |-> {}]

\* no thread has called into the manager yet
ThreadInit == /\ pc = [c \in Clients |-> "idle"]
              /\ lock_owner = None
              /\ ret = [c \in Clients |-> "none"]
              /\ hist = [c \in Clients |-> NoHist]

\* Optional[float] None, and a dict entry that is not there (timestamps
\* and times are never negative)
Absent == -1

\* a Python value: a leaf (t: float, nan, inf, ninf, str, null; v:
\* its value) or a container (t: dict, list, tuple, object; items: the
\* values it holds, for a dict or an object in the order of its keys)
Leaf(t, v) == [t |-> t, v |-> v, items |-> <<>>]
Container(t, items) == [t |-> t, v |-> 0, items |-> items]

\* no response under construction
NoPayload == Leaf("none", 0)

\* no reply sent yet
NoReply == [type |-> "none", client |-> None]

\* TobiiServer.__init__: running is False and the client set is empty; the
\* other fields are the sockets that are open, the position of run_forever
\* (loop) and of shutdown, the state of shutdown's iterator over the client
\* set (si_used: the size of the set when the iterator was made, visited:
\* the connections it has yielded), and what is remembered about the run:
\* the client set when shutdown began and the cleanup passes made after it
ServerInit == [running |-> FALSE, clients |-> {}, open |-> {}, loop |-> "idle", shutdown |-> "idle",
               si_used |-> 0, visited |-> {}, at_begin |-> {}, passes |-> 0]

\* DataBuffer.__init__, TimeSync.__init__, TobiiManager.__init__ on an
\* adapter that is not tracking, and WebSocketHandler.__init__ for the
\* connection of every client (active = True, nothing received or sent)
ExtInit == /\ now = 0
           /\ buffer = <<>>
           /\ bc_offsets = <<>>
           /\ pending = <<>>
           /\ num_added = 0
           /\ cleaned = FALSE
           /\ reply = NoReply
           /\ conn_active = [c \in Clients |-> TRUE]
           /\ error_replies = [c \in Clients |-> 0]
           /\ offset = 0
           /\ synced = FALSE
           /\ tracking = FALSE
           /\ gaze_callback = None
           /\ subscribed = {}
           /\ tasks = <<>>
           /\ wire = [c \in Clients |-> <<>>]
           /\ inbox = [c \in Clients |-> <<>>]
           /\ arrived = [c \in Clients |-> 0]
           /\ payload = NoPayload
           /\ server = ServerInit

\* CalibrationManager.__init__ on a freshly constructed adapter
Init == /\ sessions = <<>>
        /\ active_calibration_client = None
        /\ connected = FALSE
        /\ in_calibration_mode = FALSE
        /\ last = NoCall
        /\ ThreadInit
        /\ ExtInit

\* the number of calibration / validation points the sessions of the
\* clients in S hold together; the model stops collecting at MaxCalPoints
\* resp. MaxValPoints stored points
RECURSIVE StoredCalPoints(_)
StoredCalPoints(S) ==
    IF S = {} THEN 0
    ELSE LET c == CHOOSE d \in S : TRUE
         IN Len(sessions[c].calibration_points) + StoredCalPoints(S \ {c})

RECURSIVE StoredValPoints(_)
StoredValPoints(S) ==
    IF S = {} THEN 0
    ELSE LET c == CHOOSE d \in S : TRUE
         IN Len(sessions[c].validation_points) + StoredValPoints(S \ {c})

\* ---------------------------------------------------------------- tracker
\* TobiiManager.find_tracker -> adapter.connect
Connect == /\ ~connected
           /\ connected' = TRUE
           /\ last' = Response("connect", None, TRUE, ErrNone, "ok", "na", <<>>)
           /\ UNCHANGED <<sessions, active_calibration_client, in_calibration_mode>>
           /\ UNCHANGED <<threadVars, extVars>>

\* ------------------------------------------------------------ calibration
\* the comparison of the busy check inverted
start_calibration_busy_inverted(c) == active_calibration_client # None /\ active_calibration_client = c

\* start_calibration: "if self._active_calibration_client and
\* self._active_calibration_client != client_id"
start_calibration_busy(c) == active_calibration_client # None /\ active_calibration_client # c

\* the caller's session replaced by a new one
start_calibration_session_fresh(c) == [CalibrationSession EXCEPT !.calibration_active = TRUE]

\* a repeated start that keeps the points already collected
start_calibration_session_keeping_points(c) == [get_or_create_session(sessions, c)[c] EXCEPT !.calibration_active = TRUE]

\* start_calibration: the session after a successful adapter call
start_calibration_session(c) == [get_or_create_session(sessions, c)[c] EXCEPT !.calibration_active = TRUE, !.calibration_points = <<>>]

\* every return value but an exception taken for success
start_calibration_accepted_unless_raised(o) == o # "raise"

\* start_calibration: "if success:"
start_calibration_accepted(o) == o = "ok"

\* start_calibration(client_id); o is what adapter.start_calibration does
start_calibration(c, o) ==
    IF start_calibration_busy(c)
    THEN /\ last' = Response("calibration_start", c, FALSE, ErrBusy, "na", "na", <<>>)
         /\ UNCHANGED regVars
    ELSE /\ o \in AdapterOutcomes(connected)
         /\ in_calibration_mode' = adapter_start_calibration(in_calibration_mode, o)
         /\ IF start_calibration_accepted(o)
            THEN /\ sessions' = Put(sessions, c, start_calibration_session(c))
                 /\ active_calibration_client' = c
            ELSE UNCHANGED <<sessions, active_calibration_client>>
         /\ last' = Response("calibration_start", c, o = "ok", IF o = "raise" THEN ErrException ELSE ErrNone, o, "na", <<>>)
         /\ UNCHANGED connected

StartCalibration(c, o) == start_calibration(c, o) /\ UNCHANGED <<threadVars, extVars>>

\* the two guards in the opposite order
collect_calibration_point_error_owner_first(ss, c) ==
    IF active_calibration_client # c THEN ErrNotOwner
    ELSE IF ~ss[c].calibration_active THEN ErrCalNotActive
    ELSE ErrNone

\* collect_calibration_point: the two guards in front of the adapter call
collect_calibration_point_error(ss, c) ==
    IF ~ss[c].calibration_active THEN ErrCalNotActive
    ELSE IF active_calibration_client # c THEN ErrNotOwner
    ELSE ErrNone

\* the point stored whether or not the adapter collected it
collect_calibration_point_accepted_always(o) == TRUE

\* collect_calibration_point: "if success:"
collect_calibration_point_accepted(o) == o = "ok"

\* collect_calibration_point(x, y, timestamp, client_id); o is what
\* adapter.collect_calibration_data does
collect_calibration_point(c, p, ts, o) ==
    LET ss == get_or_create_session(sessions, c)
        err == collect_calibration_point_error(ss, c)
    IN IF err # ErrNone
       THEN /\ sessions' = ss
            /\ last' = [Response("calibration_point", c, FALSE, err, "na", "na", <<>>) EXCEPT !.point = [x |-> p.x, y |-> p.y, timestamp |-> ts]]
       ELSE /\ o \in AdapterOutcomes(in_calibration_mode)
            /\ sessions' = IF collect_calibration_point_accepted(o)
                            THEN [ss EXCEPT ![c].calibration_points = Append(@, [x |-> p.x, y |-> p.y, timestamp |-> ts])]
                            ELSE ss
            /\ last' = [Response("calibration_point", c, o = "ok", IF o = "raise" THEN ErrException ELSE ErrNone, o, "na", <<>>) EXCEPT !.point = [x |-> p.x, y |-> p.y, timestamp |-> ts]]

CollectCalibrationPoint(c, p, ts, o) ==
    /\ StoredCalPoints(DOMAIN sessions) < MaxCalPoints
    /\ collect_calibration_point(c, p, ts, o)
    /\ UNCHANGED <<active_calibration_client, connected, in_calibration_mode>>
    /\ UNCHANGED <<threadVars, extVars>>
\* compute_calibration: the two guards in front of the try block
compute_calibration_error(ss, c) ==
    IF ~ss[c].calibration_active THEN ErrCalNotActive
    ELSE IF active_calibration_client # c THEN ErrNotOwner
    ELSE ErrNone

\* result.point_errors of a CalibrationResult with n per-point errors (the
\* i-th error is written i; n = 0 stands for None and for the empty list)
PointErrors(n) == [i \in 1..n |-> i]

\* errors paired with points as far as both lists go, whatever their lengths
point_quality_zip_shortest(points, errors) ==
    LET k == IF Len(errors) < Len(points) THEN Len(errors) ELSE Len(points)
    IN [i \in 1..k |-> [point |-> points[i], error |-> errors[i]]]

\* compute_calibration: "Build point quality data if available"
point_quality(points, errors) ==
    IF Len(errors) > 0 /\ Len(errors) = Len(points)
    THEN [i \in 1..Len(points) |-> [point |-> points[i], error |-> errors[i]]]
    ELSE <<>>

\* the lock kept by the finally block
compute_calibration_release_never(c) == active_calibration_client

\* compute_calibration, finally block: the lock holder afterwards
compute_calibration_release(c) == IF active_calibration_client = c THEN None ELSE active_calibration_client

\* the clean-up placed after the try block instead of in "finally": it is
\* skipped when adapter.compute_calibration raises
compute_calibration_finally_skipped_on_raise(ss, c, oc, ol) ==
    IF oc = "raise"
    THEN /\ sessions' = ss
         /\ UNCHANGED <<in_calibration_mode, active_calibration_client>>
    ELSE /\ in_calibration_mode' = adapter_leave_calibration_mode(in_calibration_mode, ol)
         /\ sessions' = [ss EXCEPT ![c].calibration_active = FALSE]
         /\ active_calibration_client' = compute_calibration_release(c)

\* the lock released with the session left calibrating
compute_calibration_finally_session_left(ss, c, oc, ol) ==
    /\ in_calibration_mode' = adapter_leave_calibration_mode(in_calibration_mode, ol)
    /\ sessions' = ss
    /\ active_calibration_client' = compute_calibration_release(c)

\* compute_calibration, finally block, run with the session ss[c] the call
\* looked up, whatever adapter.compute_calibration did (oc)
compute_calibration_finally(ss, c, oc, ol) ==
    /\ in_calibration_mode' = adapter_leave_calibration_mode(in_calibration_mode, ol)
    /\ sessions' = [ss EXCEPT ![c].calibration_active = FALSE]
    /\ active_calibration_client' = compute_calibration_release(c)

\* the guards placed inside the try block: the finally block runs for a
\* rejected call as well and leaves calibration mode
compute_calibration_cleanup_always(c, oc, n, ol) ==
    LET ss == get_or_create_session(sessions, c)
        err == compute_calibration_error(ss, c)
    IN IF err # ErrNone
       THEN /\ sessions' = [ss EXCEPT ![c].calibration_active = FALSE]
            /\ in_calibration_mode' = FALSE
            /\ active_calibration_client' = compute_calibration_release(c)
            /\ last' = Response("calibration_compute", c, FALSE, err, "na", "na", <<>>)
       ELSE /\ oc \in AdapterOutcomes(in_calibration_mode)
            /\ ol \in AdapterOutcomes(in_calibration_mode)
            /\ compute_calibration_finally(ss, c, oc, ol)
            /\ last' = Response("calibration_compute", c, oc = "ok", IF oc = "raise" THEN ErrException ELSE ErrNone, oc, ol,
                                IF oc = "ok" THEN point_quality(ss[c].calibration_points, PointErrors(n)) ELSE <<>>)

\* compute_calibration(client_id); oc is what adapter.compute_calibration
\* does (returning n per-point errors on success), ol what
\* adapter.leave_calibration_mode does in the finally block
compute_calibration(c, oc, n, ol) ==
    LET ss == get_or_create_session(sessions, c)
        err == compute_calibration_error(ss, c)
    IN IF err # ErrNone
       THEN /\ sessions' = ss
            /\ last' = Response("calibration_compute", c, FALSE, err, "na", "na", <<>>)
            /\ UNCHANGED <<active_calibration_client, in_calibration_mode>>
       ELSE /\ oc \in AdapterOutcomes(in_calibration_mode)
            /\ ol \in AdapterOutcomes(in_calibration_mode)
            /\ compute_calibration_finally(ss, c, oc, ol)
            /\ last' = Response("calibration_compute", c, oc = "ok", IF oc = "raise" THEN ErrException ELSE ErrNone, oc, ol,
                                IF oc = "ok" THEN point_quality(ss[c].calibration_points, PointErrors(n)) ELSE <<>>)

ComputeCalibration(c, oc, n, ol) ==
    /\ compute_calibration(c, oc, n, ol)
    /\ UNCHANGED connected
    /\ UNCHANGED <<threadVars, extVars>>

\* the lock released by the disconnect of any client
remove_session_owner_any(c) == active_calibration_client # None

\* remove_session: "if self._active_calibration_client == client_id"
remove_session_owner(c) == active_calibration_client = c

\* the lock holder left in place
remove_session_release_never(c) == active_calibration_client

\* remove_session: "self._active_calibration_client = None"
remove_session_release(c) == None

\* remove_session(client_id); ol is what adapter.leave_calibration_mode
\* does when the client holds the calibration lock
remove_session(c, ol) ==
    /\ sessions' = Del(sessions, c)
    /\ IF remove_session_owner(c)
       THEN /\ ol \in AdapterOutcomes(in_calibration_mode)
            /\ in_calibration_mode' = adapter_leave_calibration_mode(in_calibration_mode, ol)
            /\ active_calibration_client' = remove_session_release(c)
            /\ last' = Response("remove_session", c, TRUE, ErrNone, "na", ol, <<>>)
       ELSE /\ UNCHANGED <<active_calibration_client, in_calibration_mode>>
            /\ last' = Response("remove_session", c, TRUE, ErrNone, "na", "na", <<>>)

RemoveSession(c, ol) ==
    /\ remove_session(c, ol)
    /\ UNCHANGED connected
    /\ UNCHANGED <<threadVars, extVars>>
\* ------------------------------------------------------------- validation
\* validation turned away while another client holds the calibration lock
start_validation_error_when_busy(c) ==
    IF ~connected THEN ErrNotConnected
    ELSE IF start_calibration_busy(c) THEN ErrBusy
    ELSE ErrNone

\* start_validation: "if not self.tobii_manager.is_connected()", the only
\* guard of the method
start_validation_error(c) == IF ~connected THEN ErrNotConnected ELSE ErrNone

\* the points of an earlier validation kept
start_validation_keeping_points(c) ==
    IF start_validation_error(c) # ErrNone
    THEN /\ UNCHANGED sessions
         /\ last' = Response("validation_start", c, FALSE, start_validation_error(c), "na", "na", <<>>)
    ELSE /\ sessions' = Put(sessions, c, [get_or_create_session(sessions, c)[c] EXCEPT !.validation_active = TRUE])
         /\ last' = Response("validation_start", c, TRUE, ErrNone, "na", "na", <<>>)

\* start_validation(client_id)
start_validation(c) ==
    IF start_validation_error(c) # ErrNone
    THEN /\ UNCHANGED sessions
         /\ last' = Response("validation_start", c, FALSE, start_validation_error(c), "na", "na", <<>>)
    ELSE /\ sessions' = Put(sessions, c, [get_or_create_session(sessions, c)[c] EXCEPT !.validation_active = TRUE, !.validation_points = <<>>])
         /\ last' = Response("validation_start", c, TRUE, ErrNone, "na", "na", <<>>)

StartValidation(c) ==
    /\ start_validation(c)
    /\ UNCHANGED <<active_calibration_client, connected, in_calibration_mode>>
    /\ UNCHANGED <<threadVars, extVars>>

\* the point stored whether or not the session is validating
collect_validation_point_unguarded(c, p, ts, g) ==
    LET ss == get_or_create_session(sessions, c)
    IN /\ sessions' = [ss EXCEPT ![c].validation_points = Append(@, [x |-> p.x, y |-> p.y, timestamp |-> ts, gaze_samples |-> g])]
       /\ last' = [Response("validation_point", c, ss[c].validation_active, IF ss[c].validation_active THEN ErrNone ELSE ErrValNotActive, "na", "na", <<>>) EXCEPT !.point = [x |-> p.x, y |-> p.y, timestamp |-> ts]]

\* collect_validation_point(x, y, timestamp, gaze_samples, client_id)
collect_validation_point(c, p, ts, g) ==
    LET ss == get_or_create_session(sessions, c)
    IN IF ~ss[c].validation_active
       THEN /\ sessions' = ss
            /\ last' = [Response("validation_point", c, FALSE, ErrValNotActive, "na", "na", <<>>) EXCEPT !.point = [x |-> p.x, y |-> p.y, timestamp |-> ts]]
       ELSE /\ sessions' = [ss EXCEPT ![c].validation_points = Append(@, [x |-> p.x, y |-> p.y, timestamp |-> ts, gaze_samples |-> g])]
            /\ last' = [Response("validation_point", c, TRUE, ErrNone, "na", "na", <<>>) EXCEPT !.point = [x |-> p.x, y |-> p.y, timestamp |-> ts]]

CollectValidationPoint(c, p, ts, g) ==
    /\ StoredValPoints(DOMAIN sessions) < MaxValPoints
    /\ collect_validation_point(c, p, ts, g)
    /\ UNCHANGED <<active_calibration_client, connected, in_calibration_mode>>
    /\ UNCHANGED <<threadVars, extVars>>

\* no sample skipped
skip_count_none(g) == 0

\* skip_count = int(len(gaze_samples) * SACCADE_SKIP_RATIO)
skip_count(g) == (Len(g) * SaccadeSkipNum) \div SaccadeSkipDen

\* fixation_samples = gaze_samples[skip_count:]
fixation_samples(g) == SubSeq(g, skip_count(g) + 1, Len(g))

\* sample.get("leftValid") or sample.get("rightValid")
sample_valid(s) == s.leftValid \/ s.rightValid

\* valid_samples: the fixation samples that pass the validity test, in order
valid_samples(g) == SelectSeq(fixation_samples(g), sample_valid)

\* compute_validation, one pass of the loop body: the entry appended to
\* point_data for a validation point that has valid samples
point_entry(vp) == [point |-> [x |-> vp.x, y |-> vp.y], numSamples |-> Len(valid_samples(vp.gaze_samples)), numSamplesTotal |-> Len(vp.gaze_samples), numSamplesSkipped |-> skip_count(vp.gaze_samples)]

\* an entry for every validation point, none skipped
point_data_every_point(vps) == [i \in 1..Len(vps) |-> point_entry(vps[i])]

\* compute_validation, the loop: "continue" for a point without gaze
\* samples, without fixation samples or without valid samples
RECURSIVE point_data(_)
point_data(vps) ==
    IF vps = <<>> THEN <<>>
    ELSE IF Len(valid_samples(Head(vps).gaze_samples)) = 0
         THEN point_data(Tail(vps))
         ELSE <<point_entry(Head(vps))>> \o point_data(Tail(vps))

\* compute_validation: "if len(session.validation_points) < 3"
need_more_points(vps) == Len(vps) < MinValidationPoints

\* compute_validation, the loop: sample["x"] raises KeyError for a kept
\* sample without coordinates, which ends the loop in the except block
validation_raises(vps) == \E i \in 1..Len(vps) : \E j \in 1..Len(valid_samples(vps[i].gaze_samples)) : ~valid_samples(vps[i].gaze_samples)[j].xy

\* compute_validation(client_id)
compute_validation(c) ==
    LET ss == get_or_create_session(sessions, c)
        vps == ss[c].validation_points
    IN IF ~ss[c].validation_active
       THEN /\ sessions' = ss
            /\ last' = Response("validation_compute", c, FALSE, ErrValNotActive, "na", "na", <<>>)
       ELSE IF need_more_points(vps)
       THEN /\ sessions' = ss
            /\ last' = Response("validation_compute", c, FALSE, ErrNeedMorePoints, "na", "na", <<>>)
       ELSE IF validation_raises(vps)
       THEN /\ sessions' = [ss EXCEPT ![c].validation_active = FALSE]
            /\ last' = Response("validation_compute", c, FALSE, ErrException, "na", "na", <<>>)
       ELSE IF point_data(vps) = <<>>
       THEN /\ sessions' = [ss EXCEPT ![c].validation_active = FALSE]
            /\ last' = Response("validation_compute", c, FALSE, ErrNoValidSamples, "na", "na", <<>>)
       ELSE /\ sessions' = [ss EXCEPT ![c].validation_active = FALSE]
            /\ last' = [Response("validation_compute", c, TRUE, ErrNone, "na", "na", <<>>) EXCEPT !.pointData = point_data(vps)]

ComputeValidation(c) ==
    /\ compute_validation(c)
    /\ UNCHANGED <<active_calibration_client, connected, in_calibration_mode>>
    /\ UNCHANGED <<threadVars, extVars>>

\* --------------------------------------------------- the event-loop server
\* what an adapter primitive can do in a call: nothing ("na") when the call
\* is rejected before it reaches the adapter
Called(reached, pre) == IF reached THEN AdapterOutcomes(pre) ELSE {"na"}

\* the call passes the guards of collect_calibration_point / compute_calibration
owns_calibration(c) == c \in DOMAIN sessions /\ sessions[c].calibration_active /\ active_calibration_client = c

Next ==
    \/ Connect
    \/ \E c \in Clients : \E o \in Called(~start_calibration_busy(c), connected) : StartCalibration(c, o)
    \/ \E c \in Clients, p \in CalPointInputs, ts \in TimestampInputs : \E o \in Called(owns_calibration(c), in_calibration_mode) : CollectCalibrationPoint(c, p, ts, o)
    \/ \E c \in Clients : \E oc \in Called(owns_calibration(c), in_calibration_mode), ol \in Called(owns_calibration(c), in_calibration_mode) : \E n \in (IF oc = "ok" THEN 0..MaxCalPoints ELSE {0}) : ComputeCalibration(c, oc, n, ol)
    \/ \E c \in Clients : \E ol \in Called(remove_session_owner(c), in_calibration_mode) : RemoveSession(c, ol)
    \/ \E c \in Clients : StartValidation(c)
    \/ \E c \in Clients, p \in ValPointInputs, ts \in TimestampInputs, g \in RegistryGazeInputs : CollectValidationPoint(c, p, ts, g)
    \/ \E c \in Clients : ComputeValidation(c)

Spec == Init /\ [][Next]_vars
\* ------------------------------------------- one client's validation run
\* the validation calls of one connection, with every kind of gaze list
ValClients == {1}

NextVal ==
    \/ Connect
    \/ \E c \in ValClients : StartValidation(c)
    \/ \E c \in ValClients, p \in PointInputs, ts \in TimestampInputs, g \in GazeInputs : CollectValidationPoint(c, p, ts, g)
    \/ \E c \in ValClients : ComputeValidation(c)
    \/ \E c \in ValClients : RemoveSession(c, "na")

SpecVal == Init /\ [][NextVal]_vars

\* ----------------------------------------- calibration with two targets
\* the calibration calls of two connections, with both target points
CalClients == {1, 2}

NextCal ==
    \/ Connect
    \/ \E c \in CalClients : \E o \in Called(~start_calibration_busy(c), connected) : StartCalibration(c, o)
    \/ \E c \in CalClients, p \in PointInputs, ts \in TimestampInputs : \E o \in Called(owns_calibration(c), in_calibration_mode) : CollectCalibrationPoint(c, p, ts, o)
    \/ \E c \in CalClients : \E oc \in Called(owns_calibration(c), in_calibration_mode), ol \in Called(owns_calibration(c), in_calibration_mode) : \E n \in (IF oc = "ok" THEN 0..MaxCalPoints ELSE {0}) : ComputeCalibration(c, oc, n, ol)
    \/ \E c \in CalClients : \E ol \in Called(remove_session_owner(c), in_calibration_mode) : RemoveSession(c, ol)

SpecCal == Init /\ [][NextCal]_vars

\* --------------------------------------- calibration on a working tracker
\* what a primitive does when the tracker works: it succeeds whenever its
\* precondition holds (S: what the primitive can do in the call)
OkOutcomes(S) == IF "ok" \in S THEN {"ok"} ELSE S

\* the calibration calls of two connections and their disconnects, every
\* adapter primitive succeeding whenever it can
NextCalOk ==
    \/ Connect
    \/ \E c \in CalClients : \E o \in OkOutcomes(Called(~start_calibration_busy(c), connected)) : StartCalibration(c, o)
    \/ \E c \in CalClients, p \in PointInputs, ts \in TimestampInputs : \E o \in OkOutcomes(Called(owns_calibration(c), in_calibration_mode)) : CollectCalibrationPoint(c, p, ts, o)
    \/ \E c \in CalClients : \E oc \in OkOutcomes(Called(owns_calibration(c), in_calibration_mode)), ol \in OkOutcomes(Called(owns_calibration(c), in_calibration_mode)) : \E n \in (IF oc = "ok" THEN 0..MaxCalPoints ELSE {0}) : ComputeCalibration(c, oc, n, ol)
    \/ \E c \in CalClients : \E ol \in OkOutcomes(Called(remove_session_owner(c), in_calibration_mode)) : RemoveSession(c, ol)

SpecCalOk == Init /\ [][NextCalOk]_vars

\* ------------------------------- calibration and validation side by side
\* all registry calls of two connections
PairClients == {1, 2}

NextPair ==
    \/ Connect
    \/ \E c \in PairClients : \E o \in Called(~start_calibration_busy(c), connected) : StartCalibration(c, o)
    \/ \E c \in PairClients, p \in CalPointInputs, ts \in TimestampInputs : \E o \in Called(owns_calibration(c), in_calibration_mode) : CollectCalibrationPoint(c, p, ts, o)
    \/ \E c \in PairClients : \E oc \in Called(owns_calibration(c), in_calibration_mode), ol \in Called(owns_calibration(c), in_calibration_mode) : \E n \in (IF oc = "ok" THEN 0..MaxCalPoints ELSE {0}) : ComputeCalibration(c, oc, n, ol)
    \/ \E c \in PairClients : \E ol \in Called(remove_session_owner(c), in_calibration_mode) : RemoveSession(c, ol)
    \/ \E c \in PairClients : StartValidation(c)
    \/ \E c \in PairClients, p \in ValPointInputs, ts \in TimestampInputs, g \in RegistryGazeInputs : CollectValidationPoint(c, p, ts, g)
    \/ \E c \in PairClients : ComputeValidation(c)

SpecPair == Init /\ [][NextPair]_vars

\* ------------------------------------------------ one thread per caller
\* a lock that excludes nobody
lock_free_always == TRUE

\* threading.Lock: acquire succeeds only while nobody holds the lock
lock_free == lock_owner = None

\* positions inside a start_calibration call that has not returned yet
StartPcs == {"sc_lock", "sc_check", "sc_adapter", "sc_set"}

InFlight == {d \in Clients : pc[d] \in StartPcs}

\* a thread enters start_calibration(client_id)
T_StartInvoke(c) ==
    /\ pc[c] = "idle"
    /\ pc' = [pc EXCEPT ![c] = "sc_lock"]
    /\ ret' = [ret EXCEPT ![c] = "none"]
    /\ hist' = [d \in Clients |->
                  IF d = c THEN [free |-> active_calibration_client = None, released |-> FALSE, peers |-> InFlight]
                  ELSE IF d \in InFlight THEN [hist[d] EXCEPT !.peers = @ \cup {c}]
                  ELSE hist[d]]
    /\ UNCHANGED <<regVars, last, extVars, lock_owner>>

\* start_calibration: "with self._calibration_lock:"
T_StartAcquire(c) ==
    /\ pc[c] = "sc_lock"
    /\ lock_free
    /\ lock_owner' = c
    /\ pc' = [pc EXCEPT ![c] = "sc_check"]
    /\ UNCHANGED <<regVars, last, extVars, ret, hist>>

\* start_calibration: the check for another calibrating client; the return
\* inside the with block releases the lock
T_StartCheck(c) ==
    /\ pc[c] = "sc_check"
    /\ IF start_calibration_busy(c)
       THEN /\ ret' = [ret EXCEPT ![c] = "busy"]
            /\ pc' = [pc EXCEPT ![c] = "returned"]
            /\ lock_owner' = None
       ELSE /\ pc' = [pc EXCEPT ![c] = "sc_adapter"]
            /\ UNCHANGED <<ret, lock_owner>>
    /\ UNCHANGED <<regVars, last, extVars, hist>>

\* start_calibration: "success = self.tobii_manager.adapter.start_calibration()"
T_StartAdapter(c, o) ==
    /\ pc[c] = "sc_adapter"
    /\ o \in AdapterOutcomes(connected)
    /\ in_calibration_mode' = adapter_start_calibration(in_calibration_mode, o)
    /\ IF o = "ok"
       THEN /\ pc' = [pc EXCEPT ![c] = "sc_set"]
            /\ UNCHANGED <<ret, lock_owner>>
       ELSE /\ ret' = [ret EXCEPT ![c] = IF o = "fail" THEN "fail" ELSE "error"]
            /\ pc' = [pc EXCEPT ![c] = "returned"]
            /\ lock_owner' = None
    /\ UNCHANGED <<sessions, active_calibration_client, connected, last, extVars, hist>>

\* start_calibration: "if success:" the session is marked, the caller is
\* recorded as lock holder, the response is returned
T_StartSet(c) ==
    /\ pc[c] = "sc_set"
    /\ sessions' = Put(sessions, c, start_calibration_session(c))
    /\ active_calibration_client' = c
    /\ ret' = [ret EXCEPT ![c] = "ok"]
    /\ pc' = [pc EXCEPT ![c] = "returned"]
    /\ lock_owner' = None
    /\ UNCHANGED <<connected, in_calibration_mode, last, extVars, hist>>

\* the caller takes the response and goes on
T_Return(c) ==
    /\ pc[c] = "returned"
    /\ pc' = [pc EXCEPT ![c] = "idle"]
    /\ ret' = [ret EXCEPT ![c] = "none"]
    /\ hist' = [hist EXCEPT ![c] = NoHist]
    /\ UNCHANGED <<regVars, last, extVars, lock_owner>>

\* a thread enters remove_session(client_id)
T_RemoveInvoke(c) ==
    /\ pc[c] = "idle"
    /\ pc' = [pc EXCEPT ![c] = "rs_lock"]
    /\ UNCHANGED <<regVars, last, extVars, lock_owner, ret, hist>>

\* remove_session: "with self._calibration_lock:"
T_RemoveAcquire(c) ==
    /\ pc[c] = "rs_lock"
    /\ lock_free
    /\ lock_owner' = c
    /\ pc' = [pc EXCEPT ![c] = "rs_body"]
    /\ UNCHANGED <<regVars, last, extVars, ret, hist>>

\* remove_session: the body of the with block, then the lock is released
T_RemoveBody(c, ol) ==
    /\ pc[c] = "rs_body"
    /\ sessions' = Del(sessions, c)
    /\ IF remove_session_owner(c)
       THEN /\ ol \in AdapterOutcomes(in_calibration_mode)
            /\ in_calibration_mode' = adapter_leave_calibration_mode(in_calibration_mode, ol)
            /\ active_calibration_client' = remove_session_release(c)
            /\ hist' = [d \in Clients |-> IF d \in InFlight THEN [hist[d] EXCEPT !.released = TRUE] ELSE hist[d]]
       ELSE /\ ol = "na"
            /\ UNCHANGED <<active_calibration_client, in_calibration_mode, hist>>
    /\ lock_owner' = None
    /\ pc' = [pc EXCEPT ![c] = "idle"]
    /\ UNCHANGED <<connected, last, extVars, ret>>

\* the tracker gets connected before or while the threads run
T_Connect ==
    /\ ~connected
    /\ connected' = TRUE
    /\ UNCHANGED <<sessions, active_calibration_client, in_calibration_mode, last, extVars, threadVars>>

NextThreads ==
    \/ T_Connect
    \/ \E c \in Clients : T_StartInvoke(c)
    \/ \E c \in Clients : T_StartAcquire(c)
    \/ \E c \in Clients : T_StartCheck(c)
    \/ \E c \in Clients, o \in Outcomes : T_StartAdapter(c, o)
    \/ \E c \in Clients : T_StartSet(c)
    \/ \E c \in Clients : T_Return(c)
    \/ \E c \in Clients : T_RemoveInvoke(c)
    \/ \E c \in Clients : T_RemoveAcquire(c)
    \/ \E c \in Clients, ol \in Outcomes \cup {"na"} : T_RemoveBody(c, ol)

SpecThreads == Init /\ [][NextThreads]_vars

\* ------------------------------------------------------ the sample store
\* device timestamps of the samples a query run ingests; Absent: the sample
\* has no "timestamp"
DeviceTimestamps == {Absent, 0, 1, 2}

\* start_time / end_time of get_data; Absent: the bound is not given
QueryTimes == {Absent, 1}

\* offered entry dropped when the deque is full
deque_append_drop_newest(q, v, n) == IF Len(q) >= n THEN q ELSE Append(q, v)

\* deque(maxlen=n).append(v): the oldest entry is discarded when full
deque_append(q, v, n) == IF Len(q) >= n THEN Append(Tail(q), v) ELSE Append(q, v)

\* get_size
get_size == Len(buffer)

\* the server clock advances
Tick ==
    /\ now < MaxTime
    /\ now' = now + 1
    /\ reply' = [type |-> "tick", client |-> None]
    /\ UNCHANGED <<buffer, bc_offsets, pending, num_added, cleaned, conn_active, error_replies>>
    /\ UNCHANGED <<regVars, last, threadVars, srvVars, syncVars, streamVars>>

\* add_sample, on the producer thread, outside the lock:
\* sample["server_timestamp"] = time.time() * 1000
AddSampleStamp(x, d) ==
    /\ pending = <<>>
    /\ num_added < MaxAdds
    /\ pending' = <<[x |-> x, timestamp |-> d, server_timestamp |-> now]>>
    /\ reply' = [type |-> "add_sample_stamp", client |-> None]
    /\ UNCHANGED <<now, buffer, bc_offsets, num_added, cleaned, conn_active, error_replies>>
    /\ UNCHANGED <<regVars, last, threadVars, srvVars, syncVars, streamVars>>

\* add_sample: the offset recorded for a sample that has a device timestamp
add_offset(offsets, s) ==
    IF s.timestamp # Absent
    THEN deque_append(offsets, s.server_timestamp - s.timestamp, OffsetWindow)
    ELSE offsets

\* add_sample, "with self._lock:" the sample is appended and its offset
\* recorded
AddSampleAppend ==
    /\ pending # <<>>
    /\ buffer' = deque_append(buffer, pending[1], MaxCapacity)
    /\ bc_offsets' = add_offset(bc_offsets, pending[1])
    /\ pending' = <<>>
    /\ num_added' = num_added + 1
    /\ reply' = [type |-> "add_sample", client |-> None]
    /\ UNCHANGED <<now, cleaned, conn_active, error_replies>>
    /\ UNCHANGED <<regVars, last, threadVars, srvVars, syncVars, streamVars>>

\* entries stamped exactly at the cutoff removed as well
RECURSIVE cleanup_old_data_inclusive(_, _)
cleanup_old_data_inclusive(buf, cutoff) ==
    IF buf # <<>> /\ Head(buf).server_timestamp <= cutoff
    THEN cleanup_old_data_inclusive(Tail(buf), cutoff)
    ELSE buf

\* cleanup_old_data: "while self.buffer and
\* self.buffer[0].get("server_timestamp", 0) < cutoff_time: popleft()"
RECURSIVE cleanup_old_data(_, _)
cleanup_old_data(buf, cutoff) ==
    IF buf # <<>> /\ Head(buf).server_timestamp < cutoff
    THEN cleanup_old_data(Tail(buf), cutoff)
    ELSE buf

\* a cleanup pass that also drops the offsets of the samples it removes
CleanupOldData_trimming_offsets ==
    /\ buffer' = cleanup_old_data(buffer, now - MaxDurationMs)
    /\ bc_offsets' = IF Len(buffer') < Len(bc_offsets)
                     THEN SubSeq(bc_offsets, Len(bc_offsets) - Len(buffer') + 1, Len(bc_offsets))
                     ELSE bc_offsets
    /\ cleaned' = TRUE
    /\ reply' = [type |-> "cleanup_old_data", client |-> None, cutoff |-> now - MaxDurationMs]
    /\ UNCHANGED <<now, pending, num_added, conn_active, error_replies>>
    /\ UNCHANGED <<regVars, last, threadVars, srvVars, syncVars, streamVars>>

\* TobiiServer.run_forever: the periodic data_buffer.cleanup_old_data()
CleanupOldData ==
    /\ buffer' = cleanup_old_data(buffer, now - MaxDurationMs)
    /\ cleaned' = TRUE
    /\ reply' = [type |-> "cleanup_old_data", client |-> None, cutoff |-> now - MaxDurationMs]
    /\ UNCHANGED <<now, bc_offsets, pending, num_added, conn_active, error_replies>>
    /\ UNCHANGED <<regVars, last, threadVars, srvVars, syncVars, streamVars>>

\* DataBuffer.clear
Clear ==
    /\ buffer' = <<>>
    /\ bc_offsets' = <<>>
    /\ cleaned' = TRUE
    /\ reply' = [type |-> "clear", client |-> None]
    /\ UNCHANGED <<now, pending, num_added, conn_active, error_replies>>
    /\ UNCHANGED <<regVars, last, threadVars, srvVars, syncVars, streamVars>>

\* ------------------------------------------- ingestion and eviction runs
\* the producer ingests samples numbered 0, 1, 2, ... (x and the device
\* timestamp of the i-th sample are i) while the clock advances and the
\* periodic cleanup runs
NextBuf ==
    \/ Tick
    \/ AddSampleStamp(num_added, num_added)
    \/ AddSampleAppend
    \/ CleanupOldData
    \/ Clear

SpecBuf == Init /\ [][NextBuf]_vars

\* ------------------------------------------- several producer threads
\* MockTrackerAdapter.subscribe_to_gaze_data starts a new generator thread
\* on every call and stops none, so after two start_tracking requests two
\* threads deliver samples to on_gaze_data -> add_sample. Each thread has at
\* most one sample between its stamp and its append; pending holds these
\* samples in the order they were stamped.
\* add_sample on any free producer thread, outside the lock
AddSampleStampOn(x, d) ==
    /\ Len(pending) < MaxProducers
    /\ num_added + Len(pending) < MaxAdds
    /\ pending' = Append(pending, [x |-> x, timestamp |-> d, server_timestamp |-> now])
    /\ reply' = [type |-> "add_sample_stamp", client |-> None]
    /\ UNCHANGED <<now, buffer, bc_offsets, num_added, cleaned, conn_active, error_replies>>
    /\ UNCHANGED <<regVars, last, threadVars, srvVars, syncVars, streamVars>>

\* add_sample, "with self._lock:" whichever stamped thread wins the lock
\* appends its sample
AddSampleAppendOf(i) ==
    /\ i \in 1..Len(pending)
    /\ buffer' = deque_append(buffer, pending[i], MaxCapacity)
    /\ bc_offsets' = add_offset(bc_offsets, pending[i])
    /\ pending' = SubSeq(pending, 1, i - 1) \o SubSeq(pending, i + 1, Len(pending))
    /\ num_added' = num_added + 1
    /\ reply' = [type |-> "add_sample", client |-> None]
    /\ UNCHANGED <<now, cleaned, conn_active, error_replies>>
    /\ UNCHANGED <<regVars, last, threadVars, srvVars, syncVars, streamVars>>

NextProd ==
    \/ Tick
    \/ AddSampleStampOn(num_added + Len(pending), num_added + Len(pending))
    \/ \E i \in 1..MaxProducers : AddSampleAppendOf(i)
    \/ CleanupOldData

SpecProd == Init /\ [][NextProd]_vars

\* --------------------------------------------------------------- queries
\* s.get("timestamp", 0)
device_timestamp(s) == IF s.timestamp = Absent THEN 0 ELSE s.timestamp

\* the lower bound exclusive
from_start_time_exclusive(samples, start_time) ==
    IF start_time # Absent
    THEN SelectSeq(samples, LAMBDA s : device_timestamp(s) > start_time)
    ELSE samples

\* get_samples: "if start_time is not None: samples = [s for s in samples
\* if s.get("timestamp", 0) >= start_time]"
from_start_time(samples, start_time) ==
    IF start_time # Absent
    THEN SelectSeq(samples, LAMBDA s : device_timestamp(s) >= start_time)
    ELSE samples

\* get_samples: "if end_time is not None: samples = [s for s in samples
\* if s.get("timestamp", 0) <= end_time]"
to_end_time(samples, end_time) ==
    IF end_time # Absent
    THEN SelectSeq(samples, LAMBDA s : device_timestamp(s) <= end_time)
    ELSE samples

\* get_samples(start_time, end_time) on the buffer buf
get_samples(buf, start_time, end_time) ==
    IF buf = <<>> THEN <<>>
    ELSE to_end_time(from_start_time(buf, start_time), end_time)

\* process_message, "get_data": handle_get_data(start_time, end_time)
GetData(c, start_time, end_time) ==
    /\ conn_active[c]
    /\ reply' = [type |-> "get_data", client |-> c, request |-> "get_data", start_time |-> start_time, end_time |-> end_time,
                 samples |-> get_samples(buffer, start_time, end_time)]
    /\ UNCHANGED <<bufVars, conn_active, error_replies>>
    /\ UNCHANGED <<regVars, last, threadVars, srvVars, syncVars, streamVars>>

\* list.insert keeping an ascending list ascending
RECURSIVE insert_sorted(_, _)
insert_sorted(v, q) ==
    IF q = <<>> THEN <<v>>
    ELSE IF v <= Head(q) THEN <<v>> \o q
    ELSE <<Head(q)>> \o insert_sorted(v, Tail(q))

\* the window left in arrival order
sorted_offsets_unsorted(q) == q

\* get_device_clock_offset: "offsets.sort()"
RECURSIVE sorted_offsets(_)
sorted_offsets(q) == IF q = <<>> THEN <<>> ELSE insert_sorted(Head(q), sorted_offsets(Tail(q)))

\* sum(offsets)
RECURSIVE sum_offsets(_)
sum_offsets(q) == IF q = <<>> THEN 0 ELSE Head(q) + sum_offsets(Tail(q))

\* get_device_clock_offset: "median = offsets[mid] if n % 2 == 1 else
\* (offsets[mid - 1] + offsets[mid]) / 2", as twice the median (the median
\* of whole numbers is a multiple of 1/2); o is the sorted list, whose
\* Python index mid is the index mid + 1 here
median_x2(o) ==
    LET n == Len(o)
        mid == n \div 2
    IN IF n % 2 = 1 THEN 2 * o[mid + 1] ELSE o[mid] + o[mid + 1]

\* sum((n * x - sum(offsets)) ** 2 for x in offsets)
RECURSIVE sum_sq_dev(_, _, _)
sum_sq_dev(q, n, total) == IF q = <<>> THEN 0 ELSE (n * Head(q) - total) * (n * Head(q) - total) + sum_sq_dev(Tail(q), n, total)

\* get_device_clock_offset: "mean = sum(offsets) / n; variance = sum((x -
\* mean) ** 2 for x in offsets) / n", as n ** 3 times the variance; std_dev
\* = sqrt(variance) is 0 exactly when this number is 0
variance_xn3(o) == sum_sq_dev(o, Len(o), sum_offsets(o))

\* get_device_clock_offset on the offset window w
get_device_clock_offset(w) ==
    IF w = <<>>
    THEN [available |-> FALSE]
    ELSE LET o == sorted_offsets(w)
         IN [available |-> TRUE, offset_x2 |-> median_x2(o), sample_count |-> Len(o),
             variance_xn3 |-> variance_xn3(o), min |-> o[1], max |-> o[Len(o)]]

\* process_message, "get_device_clock_offset": handle_get_device_clock_offset
GetDeviceClockOffset(c) ==
    /\ conn_active[c]
    /\ reply' = [type |-> "get_device_clock_offset", client |-> c, request |-> "get_device_clock_offset",
                 success |-> get_device_clock_offset(bc_offsets).available,
                 result |-> get_device_clock_offset(bc_offsets)]
    /\ UNCHANGED <<bufVars, conn_active, error_replies>>
    /\ UNCHANGED <<regVars, last, threadVars, srvVars, syncVars, streamVars>>

\* ------------------------------------------------------------ query runs
\* one client queries the store while the producer ingests samples with
\* any device timestamps, or none; the run takes less than one tick of the
\* server clock, the recorded offsets differ through the device timestamps
QueryClients == {1}

NextQuery ==
    \/ \E d \in DeviceTimestamps : AddSampleStamp(0, d)
    \/ AddSampleAppend
    \/ Clear
    \/ \E c \in QueryClients, start_time \in QueryTimes, end_time \in QueryTimes : GetData(c, start_time, end_time)
    \/ \E c \in QueryClients : GetDeviceClockOffset(c)

SpecQuery == Init /\ [][NextQuery]_vars

\* -------------------------------------------------------- the connection
\* error texts of the message loop
ErrInvalidJson == "Invalid JSON"
ErrNotAnObject == "object has no attribute 'get'"
ErrUnknownType == "Unknown message type"
ErrNoAddMarker == "'DataBuffer' object has no attribute 'add_marker'"

\* clientTime of a time_sync request
ClientTimes == {0, 3}

\* the exception leaves the message loop and ends the connection
handle_after_error_closed(active) == FALSE

\* handle: the except blocks inside "async for message in self.websocket"
\* send the error and the loop goes on with the next message
handle_after_error(active) == active

\* handle, one message that ends in send_error(text): the error reply is
\* sent, the loop goes on
SendError(c, request, text) ==
    /\ reply' = [type |-> "error", client |-> c, request |-> request, error |-> text]
    /\ conn_active' = [conn_active EXCEPT ![c] = handle_after_error(@)]
    /\ error_replies' = [error_replies EXCEPT ![c] = @ + 1]

\* handle: a message that is not JSON, json.loads raises JSONDecodeError
ReceiveInvalidJson(c) ==
    /\ conn_active[c]
    /\ error_replies[c] < MaxErrors
    /\ SendError(c, "invalid_json", ErrInvalidJson)
    /\ UNCHANGED <<regVars, last, threadVars, srvVars, bufVars, syncVars, streamVars>>

\* handle: a JSON value that is not an object (a list, a number, a string,
\* null); data.get in process_message raises AttributeError
ReceiveNotObject(c) ==
    /\ conn_active[c]
    /\ error_replies[c] < MaxErrors
    /\ SendError(c, "not_object", ErrNotAnObject)
    /\ UNCHANGED <<regVars, last, threadVars, srvVars, bufVars, syncVars, streamVars>>

\* process_message: the else branch, message_type is none of the known
\* kinds (or is missing); the reply is returned and sent by handle
ReceiveUnknown(c) ==
    /\ conn_active[c]
    /\ error_replies[c] < MaxErrors
    /\ reply' = [type |-> "error", client |-> c, request |-> "unknown", error |-> ErrUnknownType]
    /\ error_replies' = [error_replies EXCEPT ![c] = @ + 1]
    /\ UNCHANGED conn_active
    /\ UNCHANGED <<regVars, last, threadVars, srvVars, bufVars, syncVars, streamVars>>

\* process_message, "marker": handle_marker calls
\* self.data_buffer.add_marker(data); DataBuffer defines no add_marker, the
\* call raises AttributeError before the marker reply is built
ReceiveMarker(c) ==
    /\ conn_active[c]
    /\ error_replies[c] < MaxErrors
    /\ SendError(c, "marker", ErrNoAddMarker)
    /\ UNCHANGED <<regVars, last, threadVars, srvVars, bufVars, syncVars, streamVars>>

\* get_latest_sample: buffer[-1], or None
get_latest_sample(buf) == IF buf = <<>> THEN <<>> ELSE <<buf[Len(buf)]>>

\* process_message, "get_current_gaze"
GetCurrentGaze(c) ==
    /\ conn_active[c]
    /\ reply' = [type |-> "get_current_gaze", client |-> c, request |-> "get_current_gaze", gaze |-> get_latest_sample(buffer)]
    /\ UNCHANGED <<bufVars, conn_active, error_replies>>
    /\ UNCHANGED <<regVars, last, threadVars, srvVars, syncVars, streamVars>>

\* process_message, "time_sync": TimeSync.handle_sync_request(client_time)
TimeSyncRequest(c, client_time) ==
    /\ conn_active[c]
    /\ reply' = [type |-> "time_sync", client |-> c, request |-> "time_sync", serverTime |-> now, clientTime |-> client_time]
    /\ UNCHANGED <<bufVars, conn_active, error_replies>>
    /\ UNCHANGED <<regVars, last, threadVars, srvVars, syncVars, streamVars>>

\* the ways the message loop of a connection ends: the async for is
\* exhausted after a closing handshake, websockets raises ConnectionClosed,
\* any other exception leaves the loop
LoopEnds == {"graceful", "abrupt", "error"}

\* the clean-up left out when an unexpected exception ended the loop
cleanup_runs_unless_error(how) == how # "error"

\* handle: "finally: self.active = False; await self.cleanup()" runs
\* however the loop ended
cleanup_runs(how) == TRUE

\* adapter.subscribe_to_gaze_data: False when the tracker is not connected
subscribe_to_gaze_data == connected

\* TobiiManager.start_tracking(handler.on_gaze_data) for the handler of
\* connection c: the one gaze_callback of the manager is overwritten, then
\* the adapter is subscribed
start_tracking(c) ==
    /\ gaze_callback' = c
    /\ tracking' = (tracking \/ subscribe_to_gaze_data)
    /\ subscribed' = IF subscribe_to_gaze_data THEN subscribed \cup {c} ELSE subscribed

\* TobiiManager.stop_tracking called for connection c:
\* adapter.unsubscribe_from_gaze_data returns False when not tracking,
\* otherwise production stops and gaze_callback is set to None
stop_tracking(c) ==
    /\ tracking' = FALSE
    /\ gaze_callback' = IF tracking THEN None ELSE gaze_callback
    /\ subscribed' = subscribed \ {c}

\* cleanup: "if self.tobii_manager.is_tracking():
\* self.tobii_manager.stop_tracking()"
cleanup_tracking(c) ==
    IF tracking THEN stop_tracking(c)
    ELSE /\ subscribed' = subscribed \ {c}
         /\ UNCHANGED <<tracking, gaze_callback>>

\* handle: the loop of connection c ends (how), "finally: self.active =
\* False; await self.cleanup()": the client's session is removed and
\* tracking is stopped if the tracker is tracking; the messages not yet
\* processed are never processed
handle_finally(c, how, ol) ==
    /\ conn_active[c]
    /\ conn_active' = [conn_active EXCEPT ![c] = FALSE]
    /\ IF cleanup_runs(how)
       THEN remove_session(c, ol) /\ cleanup_tracking(c)
       ELSE /\ subscribed' = subscribed \ {c}
            /\ UNCHANGED <<sessions, active_calibration_client, in_calibration_mode, last, tracking, gaze_callback>>
    /\ inbox' = [inbox EXCEPT ![c] = <<>>]
    /\ reply' = [type |-> "closed", client |-> c, request |-> "close", how |-> how]
    /\ UNCHANGED <<connected, error_replies, tasks, wire, arrived, payload>>
    /\ UNCHANGED <<threadVars, bufVars, syncVars>>

\* the loop of connection c ends while the server's own state stays as it is
Disconnect(c, how, ol) == handle_finally(c, how, ol) /\ UNCHANGED srvVars

\* ------------------------------------------------------ connection runs
\* the message loops of the connections: malformed, unknown and valid
\* messages in any order, while the producer ingests samples
NextConn ==
    \/ AddSampleStamp(num_added, num_added)
    \/ AddSampleAppend
    \/ \E c \in Clients : ReceiveInvalidJson(c)
    \/ \E c \in Clients : ReceiveNotObject(c)
    \/ \E c \in Clients : ReceiveUnknown(c)
    \/ \E c \in Clients : ReceiveMarker(c)
    \/ \E c \in Clients : GetCurrentGaze(c)
    \/ \E c \in Clients, client_time \in ClientTimes : TimeSyncRequest(c, client_time)
    \/ \E c \in Clients : GetDeviceClockOffset(c)
    \/ \E c \in Clients, how \in LoopEnds : Disconnect(c, how, "na")

SpecConn == Init /\ [][NextConn]_vars

\* -------------------------------------------------- clock synchronisation
\* offsets and times, in clock ticks, of either sign
TimeValues == (0 - MaxTime)..MaxTime

\* the offset added instead of subtracted
to_client_time_added(server_time) == server_time + offset

\* TimeSync.to_server_time: "return client_time + self.offset"
to_server_time(client_time) == client_time + offset

\* TimeSync.to_client_time: "return server_time - self.offset"
to_client_time(server_time) == server_time - offset

\* TimeSync.set_offset(offset)
SetOffset(o) ==
    /\ offset' = o
    /\ synced' = TRUE
    /\ reply' = [type |-> "set_offset", client |-> None]
    /\ UNCHANGED <<bufVars, conn_active, error_replies>>
    /\ UNCHANGED <<regVars, last, threadVars, srvVars, streamVars>>

\* a caller converts the time t to server time and back, and to client
\* time and back, with the offset that is set
ConvertTime(t) ==
    /\ reply' = [type |-> "convert", client |-> None, t |-> t, offset |-> offset, synced |-> synced,
                 server_time |-> to_server_time(t), client_time |-> to_client_time(t),
                 client_of_server |-> to_client_time(to_server_time(t)),
                 server_of_client |-> to_server_time(to_client_time(t))]
    /\ UNCHANGED <<bufVars, conn_active, error_replies>>
    /\ UNCHANGED <<regVars, last, threadVars, srvVars, syncVars, streamVars>>

\* the clock synchronisation of one connection while the clock advances
SyncClients == {1}

NextSync ==
    \/ Tick
    \/ \E c \in SyncClients, client_time \in ClientTimes : TimeSyncRequest(c, client_time)
    \/ \E o \in TimeValues : SetOffset(o)
    \/ \E t \in TimeValues : ConvertTime(t)

SpecSync == Init /\ [][NextSync]_vars

\* ------------------------------------------------------- the message loop
\* the messages that arrive in a run and the samples the producer delivers
MaxMessages == 3
MaxSamples == 3

\* the kinds of inbound message of the runs below; "invalid_json" is a text
\* that is not JSON, "unknown" a type process_message does not know
MessageKinds == {"start_tracking", "stop_tracking", "get_current_gaze", "marker", "unknown", "invalid_json"}

\* the requestId of the k-th message of a connection: none, or k - 1 (the
\* first request of a connection may be numbered 0)
RequestIds(k) == {Absent, k - 1}

\* the messages that arrived on the connections in S together
RECURSIVE TotalArrived(_)
TotalArrived(S) ==
    IF S = {} THEN 0
    ELSE LET c == CHOOSE d \in S : TRUE IN arrived[c] + TotalArrived(S \ {c})

\* a message arrives on connection c: websockets queues it for the
\* "async for message in self.websocket" of handle
Arrive(c, kind, rid) ==
    /\ conn_active[c]
    /\ TotalArrived(Clients) < MaxMessages
    /\ rid \in RequestIds(arrived[c] + 1)
    /\ kind = "invalid_json" => rid = Absent
    /\ arrived' = [arrived EXCEPT ![c] = @ + 1]
    /\ inbox' = [inbox EXCEPT ![c] = Append(@, [n |-> arrived[c] + 1, kind |-> kind, request_id |-> rid])]
    /\ reply' = [type |-> "arrive", client |-> c]
    /\ UNCHANGED <<tracking, gaze_callback, subscribed, tasks, wire, payload, conn_active, error_replies>>
    /\ UNCHANGED <<regVars, last, threadVars, srvVars, bufVars, syncVars>>

\* the newest queued message taken first
next_message_newest(q) == Len(q)

\* handle: "async for message in self.websocket" yields the oldest queued
\* message
next_message(q) == 1

\* the queue q without its i-th entry
Without(q, i) == SubSeq(q, 1, i - 1) \o SubSeq(q, i + 1, Len(q))

\* process_message: "if response and request_id:
\* response["requestId"] = request_id"; a requestId of 0 is not truthy
attach_request_id(request_id) == IF request_id # Absent /\ request_id # 0 THEN request_id ELSE Absent

\* the message kinds whose handling raises: json.loads on invalid JSON,
\* handle_marker on the missing DataBuffer.add_marker; handle's except
\* blocks answer with send_error(text), which builds {"type": "error",
\* "error": text} and never sees the requestId
raises(kind) == kind \in {"invalid_json", "marker"}

\* the reply to message m: send_error's reply when the handling raised, the
\* "Unknown message type" error of process_message's else branch, or the
\* handler's response, the latter two with the requestId attached
response(m) ==
    [type |-> IF raises(m.kind) \/ m.kind = "unknown" THEN "error" ELSE m.kind,
     kind |-> m.kind,
     n |-> m.n,
     request_id |-> m.request_id,
     requestId |-> IF raises(m.kind) THEN Absent ELSE attach_request_id(m.request_id)]

\* the check left out of send
send_allowed_always(active) == TRUE

\* send: "if self.active:"
send_allowed(active) == active

\* send(data) on connection c: websocket.send writes the message
send(c, data) == IF send_allowed(conn_active[c]) THEN [wire EXCEPT ![c] = Append(@, data)] ELSE wire

\* handle, one turn of the message loop of connection c: the next message
\* is decoded and processed (process_message and its handler) and the
\* reply is sent, all before the loop asks for another message
HandleMessage(c) ==
    /\ conn_active[c]
    /\ inbox[c] # <<>>
    /\ LET i == next_message(inbox[c])
           m == inbox[c][i]
       IN /\ inbox' = [inbox EXCEPT ![c] = Without(@, i)]
          /\ CASE m.kind = "start_tracking" -> start_tracking(c)
               [] m.kind = "stop_tracking" -> stop_tracking(c)
               [] OTHER -> UNCHANGED <<tracking, gaze_callback, subscribed>>
          /\ wire' = send(c, response(m))
          /\ reply' = [type |-> "handled", client |-> c]
          /\ error_replies' = [error_replies EXCEPT ![c] = IF response(m).type = "error" THEN @ + 1 ELSE @]
    /\ UNCHANGED <<tasks, arrived, payload, conn_active>>
    /\ UNCHANGED <<regVars, last, threadVars, srvVars, bufVars, syncVars>>

\* the producer thread delivers sample number num_added: the adapter
\* calls adapter_callback, which calls the manager's gaze_callback, the
\* on_gaze_data of one handler: add_sample, then, if that handler is
\* active, run_coroutine_threadsafe(send_gaze_data(), self._loop)
OnGazeData ==
    /\ tracking
    /\ num_added < MaxSamples
    /\ IF gaze_callback = None
       THEN UNCHANGED <<buffer, bc_offsets, tasks>>
       ELSE LET sample == [x |-> num_added, timestamp |-> num_added, server_timestamp |-> now]
            IN /\ buffer' = deque_append(buffer, sample, MaxCapacity)
               /\ bc_offsets' = add_offset(bc_offsets, sample)
               /\ tasks' = IF conn_active[gaze_callback]
                           THEN Append(tasks, [client |-> gaze_callback, n |-> num_added])
                           ELSE tasks
    /\ num_added' = num_added + 1
    /\ reply' = [type |-> "on_gaze_data", client |-> gaze_callback]
    /\ UNCHANGED <<now, pending, cleaned, conn_active, error_replies>>
    /\ UNCHANGED <<tracking, gaze_callback, subscribed, wire, inbox, arrived, payload>>
    /\ UNCHANGED <<regVars, last, threadVars, srvVars, syncVars>>

\* the newest scheduled coroutine run first
next_task_newest(q) == Len(q)

\* the event loop runs the coroutines handed over with
\* run_coroutine_threadsafe in the order they were handed over
next_task(q) == 1

\* send_gaze_data, run by the event loop: await self.send({"type":
\* "gaze_data", "gaze": gaze_data})
SendGazeData ==
    /\ tasks # <<>>
    /\ LET i == next_task(tasks)
           t == tasks[i]
       IN /\ tasks' = Without(tasks, i)
          /\ wire' = send(t.client, [type |-> "gaze_data", kind |-> "gaze_data", n |-> t.n, request_id |-> Absent, requestId |-> Absent])
          /\ reply' = [type |-> IF wire' # wire THEN "gaze_data" ELSE "gaze_data_dropped", client |-> t.client]
    /\ UNCHANGED <<tracking, gaze_callback, subscribed, inbox, arrived, payload, conn_active, error_replies>>
    /\ UNCHANGED <<regVars, last, threadVars, srvVars, bufVars, syncVars>>

\* ------------------------------------------------------------ payloads
\* the nesting depth of the responses built in a run
MaxDepth == 2

\* the leaves of a response: a finite float, NaN, +Infinity, -Infinity,
\* and a string, which stands for every value that is not a float (int,
\* bool, str, None)
LeafValues == {Leaf("float", 1), Leaf("nan", 0), Leaf("inf", 0), Leaf("ninf", 0), Leaf("str", 1)}

\* the containers of a response; "object" is an object with a __dict__
ContainerKinds == {"dict", "list", "tuple", "object"}

\* the nesting depth of a value
RECURSIVE Depth(_)
Depth(v) ==
    IF v.items = <<>> THEN 0
    ELSE LET d == [i \in 1..Len(v.items) |-> Depth(v.items[i])]
         IN 1 + (CHOOSE m \in {d[i] : i \in 1..Len(d)} : \A i \in 1..Len(d) : d[i] <= m)

\* a handler starts a response with a leaf value
NewValue(l) ==
    /\ payload = NoPayload
    /\ payload' = l
    /\ reply' = [type |-> "new_value", client |-> None]
    /\ UNCHANGED <<tracking, gaze_callback, subscribed, tasks, wire, inbox, arrived, conn_active, error_replies>>
    /\ UNCHANGED <<regVars, last, threadVars, srvVars, bufVars, syncVars>>

\* a handler puts the value built so far into a dict, a list, a tuple or
\* an object, alone or followed by another leaf; a response is complete
\* when it is sent
Nest(t, more) ==
    /\ payload # NoPayload
    /\ \A c \in Clients : wire[c] = <<>>
    /\ Depth(payload) < MaxDepth
    /\ payload' = Container(t, <<payload>> \o more)
    /\ reply' = [type |-> "nest", client |-> None]
    /\ UNCHANGED <<tracking, gaze_callback, subscribed, tasks, wire, inbox, arrived, conn_active, error_replies>>
    /\ UNCHANGED <<regVars, last, threadVars, srvVars, bufVars, syncVars>>

\* only the values directly inside the outermost container looked at
sanitize_top_level_only(obj) ==
    IF obj.t \in {"nan", "inf", "ninf"} THEN Leaf("null", 0)
    ELSE IF obj.t \in {"dict", "object"}
    THEN Container("dict", [i \in 1..Len(obj.items) |-> IF obj.items[i].t \in {"nan", "inf", "ninf"} THEN Leaf("null", 0) ELSE obj.items[i]])
    ELSE IF obj.t \in {"list", "tuple"}
    THEN Container("list", [i \in 1..Len(obj.items) |-> IF obj.items[i].t \in {"nan", "inf", "ninf"} THEN Leaf("null", 0) ELSE obj.items[i]])
    ELSE obj

\* sanitize_for_json(obj): a float that is NaN or infinite becomes None, a
\* dict is rebuilt with sanitized values, a list or tuple becomes a list of
\* sanitized items, an object with a __dict__ becomes the sanitized dict
\* of its attributes, anything else is returned as it is
RECURSIVE sanitize_for_json(_)
sanitize_for_json(obj) ==
    IF obj.t \in {"nan", "inf", "ninf"} THEN Leaf("null", 0)
    ELSE IF obj.t = "float" THEN obj
    ELSE IF obj.t = "dict"
    THEN Container("dict", [i \in 1..Len(obj.items) |-> sanitize_for_json(obj.items[i])])
    ELSE IF obj.t \in {"list", "tuple"}
    THEN Container("list", [i \in 1..Len(obj.items) |-> sanitize_for_json(obj.items[i])])
    ELSE IF obj.t = "object"
    THEN sanitize_for_json(Container("dict", obj.items))
    ELSE obj

\* send(data) with the response built so far, a dict: "sanitized =
\* sanitize_for_json(data); await self.websocket.send(json.dumps(sanitized))"
SendPayload(c) ==
    /\ conn_active[c]
    /\ payload.t = "dict"
    /\ wire[c] = <<>>
    /\ wire' = send(c, [type |-> "payload", kind |-> "payload", n |-> 0, request_id |-> Absent, requestId |-> Absent,
                        data |-> sanitize_for_json(payload)])
    /\ reply' = [type |-> "payload", client |-> c]
    /\ UNCHANGED <<tracking, gaze_callback, subscribed, tasks, inbox, arrived, payload, conn_active, error_replies>>
    /\ UNCHANGED <<regVars, last, threadVars, srvVars, bufVars, syncVars>>

\* ---------------------------------------------------------- payload runs
\* a response of any shape up to MaxDepth is built and sent on one
\* connection
SanClients == {1}

NextSan ==
    \/ \E l \in LeafValues : NewValue(l)
    \/ \E t \in ContainerKinds, l \in LeafValues : Nest(t, <<l>>)
    \/ \E t \in ContainerKinds : Nest(t, <<>>)
    \/ \E c \in SanClients : SendPayload(c)

SpecSan == Init /\ [][NextSan]_vars

\* ------------------------------------------------------------ close runs
\* two connections calibrate and validate while they are open, and close
\* in every way a message loop can end; a closed connection sends no call
CloseClients == {1, 2}

NextClose ==
    \/ Connect
    \/ \E c \in CloseClients : \E o \in Called(~start_calibration_busy(c), connected) : conn_active[c] /\ StartCalibration(c, o)
    \/ \E c \in CloseClients : \E oc \in Called(owns_calibration(c), in_calibration_mode), ol \in Called(owns_calibration(c), in_calibration_mode) : conn_active[c] /\ ComputeCalibration(c, oc, 0, ol)
    \/ \E c \in CloseClients : conn_active[c] /\ StartValidation(c)
    \/ \E c \in CloseClients, how \in LoopEnds : \E ol \in Called(remove_session_owner(c), in_calibration_mode) : Disconnect(c, how, ol)

SpecClose == Init /\ [][NextClose]_vars

\* ---------------------------------------------------------- request runs
\* requests of every kind, with and without requestId, arrive on two
\* connections and are answered; connections close
ReqClients == {1, 2}
ReqKinds == {"get_current_gaze", "marker", "unknown", "invalid_json"}

NextReq ==
    \/ \E c \in ReqClients, kind \in ReqKinds, rid \in {Absent} \cup (0..MaxMessages) : Arrive(c, kind, rid)
    \/ \E c \in ReqClients : HandleMessage(c)
    \/ \E c \in ReqClients : Disconnect(c, "abrupt", "na")

SpecReq == Init /\ [][NextReq]_vars

\* ----------------------------------------------------------- stream runs
\* two connections start and stop tracking and close while the producer
\* delivers samples and the event loop runs the scheduled pushes
StreamClients == {1, 2}
StreamKinds == {"start_tracking", "stop_tracking"}

NextStream ==
    \/ Connect
    \/ \E c \in StreamClients, kind \in StreamKinds : Arrive(c, kind, Absent)
    \/ \E c \in StreamClients : HandleMessage(c)
    \/ OnGazeData
    \/ SendGazeData
    \/ \E c \in StreamClients : Disconnect(c, "graceful", "na")

SpecStream == Init /\ [][NextStream]_vars

\* ------------------------------------- dispatch of calibration messages
\* the message types of a run: the calibration requests and one type the
\* server does not know
CalibrationMessageKinds == {"calibration_start", "calibration_point", "calibration_compute", "get_calibration_data", "bogus"}

\* get_calibration_data not dispatched: it falls to the final else branch
process_message_method_without_get(kind) ==
    CASE kind = "calibration_start" -> "start_calibration"
      [] kind = "calibration_point" -> "collect_calibration_point"
      [] kind = "calibration_compute" -> "compute_calibration"
      [] OTHER -> "unknown"

\* process_message: the CalibrationManager method the if/elif chain calls
\* for a message type
process_message_method(kind) ==
    CASE kind = "calibration_start" -> "start_calibration"
      [] kind = "calibration_point" -> "collect_calibration_point"
      [] kind = "calibration_compute" -> "compute_calibration"
      [] kind = "get_calibration_data" -> "compute_calibration"
      [] OTHER -> "unknown"

\* process_message for a message of type kind from client c, with an
\* adapter that does what it is asked whenever it can
ProcessMessage(c, kind) ==
    LET method == process_message_method(kind)
    IN \/ /\ method = "unknown"
          /\ ReceiveUnknown(c)
       \/ /\ method # "unknown"
          /\ conn_active[c]
          /\ \/ /\ method = "start_calibration"
                /\ \E o \in OkOutcomes(Called(~start_calibration_busy(c), connected)) : start_calibration(c, o)
             \/ /\ method = "collect_calibration_point"
                /\ StoredCalPoints(DOMAIN sessions) < MaxCalPoints
                /\ \E p \in PointInputs, ts \in TimestampInputs :
                      \E o \in OkOutcomes(Called(owns_calibration(c), in_calibration_mode)) : collect_calibration_point(c, p, ts, o)
                /\ UNCHANGED <<active_calibration_client, connected, in_calibration_mode>>
             \/ /\ method = "compute_calibration"
                /\ \E oc \in OkOutcomes(Called(owns_calibration(c), in_calibration_mode)),
                      ol \in OkOutcomes(Called(owns_calibration(c), in_calibration_mode)) :
                      \E n \in (IF oc = "ok" THEN 0..MaxCalPoints ELSE {0}) : compute_calibration(c, oc, n, ol)
                /\ UNCHANGED connected
          /\ reply' = [type |-> kind, client |-> c]
          /\ UNCHANGED <<conn_active, error_replies>>
          /\ UNCHANGED <<threadVars, srvVars, bufVars, syncVars, streamVars>>

MsgClients == {1, 2}

NextMsg ==
    \/ Connect
    \/ \E c \in MsgClients, kind \in CalibrationMessageKinds : ProcessMessage(c, kind)
    \/ \E c \in MsgClients : \E ol \in OkOutcomes(Called(remove_session_owner(c), in_calibration_mode)) : RemoveSession(c, ol)

SpecMsg == Init /\ [][NextMsg]_vars

\* ------------------------------------------------------ TobiiServer
\* start: find_tracker succeeded, "self.running = True", and run_forever
\* enters its loop and sleeps
ServerStart ==
    /\ ~server.running /\ server.loop = "idle" /\ server.shutdown = "idle"
    /\ connected' = TRUE
    /\ server' = [server EXCEPT !.running = TRUE, !.loop = "sleeping"]
    /\ UNCHANGED <<sessions, active_calibration_client, in_calibration_mode, last>>
    /\ UNCHANGED <<threadVars, bufVars, connVars, syncVars, streamVars>>

\* handle_client up to "await handler.handle()": the connection is added to
\* the client set. The runs accept connections until shutdown begins.
HandleClient(c) ==
    /\ server.running /\ server.shutdown = "idle"
    /\ c \notin server.clients /\ conn_active[c]
    /\ server' = [server EXCEPT !.clients = @ \cup {c}, !.open = @ \cup {c}]
    /\ UNCHANGED <<regVars, last, threadVars, bufVars, connVars, syncVars, streamVars>>

\* a start_tracking request of an open connection is handled
HandleStartTracking(c) ==
    /\ c \in server.clients \cap server.open /\ conn_active[c]
    /\ start_tracking(c)
    /\ UNCHANGED <<tasks, wire, inbox, arrived, payload>>
    /\ UNCHANGED <<regVars, last, threadVars, bufVars, connVars, syncVars, srvVars>>

\* the peer of connection c closes it
PeerCloses(c) ==
    /\ c \in server.clients \cap server.open
    /\ server' = [server EXCEPT !.open = @ \ {c}]
    /\ UNCHANGED <<regVars, last, threadVars, bufVars, connVars, syncVars, streamVars>>

\* handle_client: "finally: self.clients.remove(websocket)"
handle_client_finally(srv, c) == [srv EXCEPT !.clients = @ \ {c}]

\* handle_client after "await handler.handle()" has returned: the socket of
\* c is closed, the handler's loop has ended and done its cleanup, and the
\* connection removes itself from the client set
HandleClientExit(c, ol) ==
    /\ c \in server.clients /\ c \notin server.open
    /\ handle_finally(c, "graceful", ol)
    /\ server' = handle_client_finally(server, c)

\* one step of "for client in self.clients: await client.close()": the set
\* iterator raises RuntimeError("Set changed size during iteration") when
\* the size of the set differs from the size it had when the iterator was
\* made; otherwise it yields a connection not yet yielded, in no particular
\* order, whose close() is awaited, or the loop is over
shutdown_next(srv) ==
    IF Cardinality(srv.clients) # srv.si_used
    THEN {[srv EXCEPT !.shutdown = "raised"]}
    ELSE IF srv.clients \ srv.visited = {}
    THEN {[srv EXCEPT !.shutdown = "done"]}
    ELSE {[srv EXCEPT !.shutdown = "closing", !.visited = @ \cup {c}, !.open = @ \ {c}] : c \in srv.clients \ srv.visited}

\* shutdown up to its first await: "self.running = False", the tracker is
\* stopped if it is tracking, and the loop over the client set starts
Shutdown ==
    /\ server.running /\ server.shutdown = "idle"
    /\ tracking' = FALSE
    /\ gaze_callback' = IF tracking THEN None ELSE gaze_callback
    /\ \E s \in shutdown_next([server EXCEPT !.running = FALSE, !.at_begin = server.clients,
                                                !.si_used = Cardinality(server.clients), !.visited = {}]) :
          server' = s
    /\ UNCHANGED <<subscribed, tasks, wire, inbox, arrived, payload>>
    /\ UNCHANGED <<regVars, last, threadVars, bufVars, connVars, syncVars>>

\* shutdown resumes after "await client.close()"
ShutdownResume ==
    /\ server.shutdown = "closing"
    /\ \E s \in shutdown_next(server) : server' = s
    /\ UNCHANGED <<regVars, last, threadVars, bufVars, connVars, syncVars, streamVars>>

\* run_forever: the sleep is over, cleanup_old_data runs and "while
\* self.running" is tested again
RunForeverPass ==
    /\ server.loop = "sleeping"
    /\ buffer' = cleanup_old_data(buffer, now - MaxDurationMs)
    /\ cleaned' = TRUE
    /\ reply' = [type |-> "cleanup_old_data", client |-> None, cutoff |-> now - MaxDurationMs]
    /\ server' = [server EXCEPT !.loop = IF server.running THEN "sleeping" ELSE "exited",
                                !.passes = IF server.shutdown = "idle" THEN @ ELSE @ + 1]
    /\ UNCHANGED <<now, bc_offsets, pending, num_added, conn_active, error_replies>>
    /\ UNCHANGED <<regVars, last, threadVars, syncVars, streamVars>>

NextServer ==
    \/ ServerStart
    \/ \E c \in Clients : HandleClient(c)
    \/ \E c \in Clients : HandleStartTracking(c)
    \/ \E c \in Clients : PeerCloses(c)
    \/ \E c \in Clients : \E ol \in Called(remove_session_owner(c), in_calibration_mode) : HandleClientExit(c, ol)
    \/ Shutdown
    \/ ShutdownResume
    \/ RunForeverPass

SpecServer == Init /\ [][NextServer]_vars

\* =================================================================== claims
\* the clients whose session has calibration_active = True
Calibrating == {c \in DOMAIN sessions : sessions[c].calibration_active}

\* the last call was a collect_calibration_point / compute_calibration call
\* that passed both guards and reached the adapter
ReachedAdapter(op) == last.op = op /\ last.adapter # "na"

\* C1: in every reachable state of the registry, after any sequence of
\* calibration, validation and remove_session calls by any clients, at most
\* one client's session has calibrationActive = true.
C1_AtMostOneCalibrating == Cardinality(Calibrating) <= 1

\* C1 witness: one client is calibrating and another client's
\* start_calibration has just been turned away.
C1_Witness ==
    /\ Cardinality(Calibrating) = 1
    /\ last.op = "calibration_start"
    /\ last.error = ErrBusy
    /\ last.client \notin Calibrating

\* C2: two threads call start_calibration for different clients at a time
\* when nobody holds the calibration lock (both calls were made while the
\* lock was free, and each call ran while the other ran and while no third
\* client's call ran), the tracker accepts (neither call got a failure or
\* an exception from the adapter) and no disconnect released the lock
\* meanwhile: when both calls have returned, one returned success and the
\* other the Busy error.
C2_ExactlyOneStartSucceeds ==
    \A a \in Clients : \A b \in Clients \ {a} :
        ( /\ pc[a] = "returned" /\ pc[b] = "returned"
          /\ hist[a].free /\ hist[b].free
          /\ ~hist[a].released /\ ~hist[b].released
          /\ hist[a].peers = {b} /\ hist[b].peers = {a}
          /\ ret[a] \in {"ok", "busy"} /\ ret[b] \in {"ok", "busy"} )
        => ( \/ ret[a] = "ok" /\ ret[b] = "busy"
             \/ ret[a] = "busy" /\ ret[b] = "ok" )

\* C2 witness: two overlapping calls have returned, one with success and one
\* with Busy.
C2_Witness ==
    \E a \in Clients : \E b \in Clients \ {a} :
        /\ pc[a] = "returned" /\ pc[b] = "returned"
        /\ hist[a].free /\ hist[b].free
        /\ ~hist[a].released /\ ~hist[b].released
        /\ hist[a].peers = {b} /\ hist[b].peers = {a}
        /\ ret[a] = "ok" /\ ret[b] = "busy"

\* C3: in every reachable state, activeCalibrationClient is non-null if and
\* only if exactly one session has calibrationActive = true (and that
\* session is the lock holder's).
C3_LockIffOneCalibrating ==
    /\ (active_calibration_client # None) <=> (Cardinality(Calibrating) = 1)
    /\ active_calibration_client # None => Calibrating = {active_calibration_client}

\* C3 witness: the lock is held and one session is calibrating while
\* another client has just disconnected.
C3_Witness ==
    /\ active_calibration_client # None
    /\ Cardinality(Calibrating) = 1
    /\ last.op = "remove_session"
    /\ last.client # active_calibration_client

\* C4: a compute_calibration call by the client that is Calibrating and
\* holds the lock ends, whatever the adapter's compute and leave primitives
\* do (success, failure, exception), with that client's calibrationActive
\* false, the leave-calibration primitive invoked and the lock free.
C4_ComputeAlwaysCleansUp ==
    ReachedAdapter("calibration_compute") =>
        /\ last.client \in DOMAIN sessions
        /\ ~sessions[last.client].calibration_active
        /\ last.leave # "na"
        /\ active_calibration_client = None

\* C4 witness: the holder's compute has returned after both
\* adapter.compute_calibration and adapter.leave_calibration_mode raised.
C4_Witness ==
    /\ ReachedAdapter("calibration_compute")
    /\ last.adapter = "raise"
    /\ last.leave = "raise"
    /\ last.error = ErrException

\* the last call was remove_session by the client that held the lock
ReleasedByDisconnect == last.op = "remove_session" /\ last.leave # "na"

C6_Original ==
    ( /\ last.op = "calibration_point"
      /\ active_calibration_client # None
      /\ active_calibration_client # last.client )
    => (~last.success /\ last.error = ErrNotOwner)

\* C6 amended: while client A holds the calibration lock, a
\* collect_calibration_point call by another client B returns success =
\* false with the error "Calibration not active", and the adapter is not
\* called.
C6_OtherClientNotActive ==
    ( /\ last.op = "calibration_point"
      /\ active_calibration_client # None
      /\ active_calibration_client # last.client )
    => (~last.success /\ last.error = ErrCalNotActive /\ last.adapter = "na")

\* C6 witness: B's collect_calibration_point has been rejected while A
\* holds the lock and is calibrating.
C6_Witness ==
    /\ last.op = "calibration_point"
    /\ active_calibration_client # None
    /\ active_calibration_client # last.client
    /\ active_calibration_client \in Calibrating
    /\ ~last.success

\* C7: the lock held by a client c stops being held by c only in a step
\* that is c's own compute_calibration or remove_session(c), and then the
\* lock is free: no call of another client, no validation call and no other
\* step releases it or hands it to another client.
C7_OnlyHolderReleases ==
    [][ \A c \in Clients :
          (active_calibration_client = c /\ active_calibration_client' # c) =>
              /\ active_calibration_client' = None
              /\ last'.client = c
              /\ last'.op \in {"calibration_compute", "remove_session"}
      ]_vars

\* C7 witness: the lock is held while the last call was a validation
\* compute of another client.
C7_Witness ==
    /\ active_calibration_client # None
    /\ last.op = "validation_compute"
    /\ last.client # active_calibration_client
    /\ last.error = ErrNeedMorePoints

\* C8: a start_calibration call records the caller as lock holder and marks
\* its session Calibrating only if adapter.start_calibration returned
\* success; when the call is turned away, or the adapter returns failure or
\* raises, the call returns success = false and the lock holder and all
\* sessions (their flags and points) are unchanged.
C8_StartOnlyOnAdapterSuccess ==
    [][ last'.op = "calibration_start" =>
          /\ last'.success <=> last'.adapter = "ok"
          /\ last'.success =>
                /\ active_calibration_client' = last'.client
                /\ last'.client \in DOMAIN sessions'
                /\ sessions'[last'.client].calibration_active
                /\ sessions'[last'.client].calibration_points = <<>>
          /\ ~last'.success =>
                /\ active_calibration_client' = active_calibration_client
                /\ sessions' = sessions
      ]_vars

\* C8 witness: the holder called start_calibration again and the adapter
\* raised; the holder is still calibrating.
C8_Witness ==
    /\ last.op = "calibration_start"
    /\ last.adapter = "raise"
    /\ ~last.success
    /\ active_calibration_client = last.client
    /\ last.client \in Calibrating

\* the calibration points of client d in registry ss (none without session)
CalPointsOf(ss, d) == IF d \in DOMAIN ss THEN ss[d].calibration_points ELSE <<>>

\* C9: a collect_calibration_point call returns success = true only if the
\* caller's session was Calibrating and the caller held the lock; the point
\* {x, y, timestamp} of the call is appended to the caller's
\* calibrationPoints exactly when adapter.collect_calibration_data returned
\* success; a rejected call, an adapter failure and an adapter exception
\* leave every session's calibrationPoints unchanged.
C9_PointAppendedIffCollected ==
    [][ last'.op = "calibration_point" =>
          /\ last'.success =>
                /\ last'.client \in DOMAIN sessions
                /\ sessions[last'.client].calibration_active
                /\ active_calibration_client = last'.client
          /\ last'.success <=> last'.adapter = "ok"
          /\ \A d \in Clients :
                CalPointsOf(sessions', d) =
                    IF d = last'.client /\ last'.adapter = "ok"
                    THEN Append(CalPointsOf(sessions, d), last'.point)
                    ELSE CalPointsOf(sessions, d)
      ]_vars

\* C9 witness: the holder has collected both target points, in the order
\* of the calls.
C9_Witness ==
    /\ last.op = "calibration_point"
    /\ last.success
    /\ CalPointsOf(sessions, last.client) = <<[x |-> 5, y |-> 5, timestamp |-> 1000], [x |-> 1, y |-> 1, timestamp |-> 1000]>>

\* no gaze sample of the list g behind the first floor(0.3 * Len(g)) samples
\* has leftValid or rightValid
NoValidAfterSkip(g) == \A j \in 1..Len(g) : j > (3 * Len(g)) \div 10 => ~(g[j].leftValid \/ g[j].rightValid)

\* C10: for a client whose session is Validating, compute_validation fails
\* with NeedMorePoints whenever fewer than 3 validation points were
\* collected since start_validation, and fails with NoValidSamples whenever
\* at least 3 points were collected and no point has a gaze sample with
\* leftValid or rightValid behind the saccade skip.
C10_ValidationFailures ==
    (last.op = "validation_compute" /\ last.error # ErrValNotActive) =>
        LET vps == sessions[last.client].validation_points
        IN /\ Len(vps) < 3 => (~last.success /\ last.error = ErrNeedMorePoints)
           /\ (Len(vps) >= 3 /\ \A i \in 1..Len(vps) : NoValidAfterSkip(vps[i].gaze_samples)) =>
                  (~last.success /\ last.error = ErrNoValidSamples)

\* C10 witness: compute_validation failed with NoValidSamples on three
\* points, one of which has a valid sample only inside the skipped prefix.
C10_Witness ==
    /\ last.op = "validation_compute"
    /\ last.error = ErrNoValidSamples
    /\ Len(sessions[last.client].validation_points) >= 3
    /\ \E i \in 1..Len(sessions[last.client].validation_points) :
          sessions[last.client].validation_points[i].gaze_samples = <<SV, SN, SN, SN>>

\* C11 as stated: every compute_validation call made while the client's
\* session is Validating ends the session: on any outcome (success,
\* NeedMorePoints, NoValidSamples or internal error) the session has
\* validationActive = false when the call returns.
C11_Original ==
    (last.op = "validation_compute" /\ last.error # ErrValNotActive) =>
        ~sessions[last.client].validation_active

\* C11, what the code does: the session is ended on success, NoValidSamples
\* and an internal error, and is still Validating after NeedMorePoints.
C11_EndsUnlessNeedMorePoints ==
    (last.op = "validation_compute" /\ last.error # ErrValNotActive) =>
        (sessions[last.client].validation_active <=> last.error = ErrNeedMorePoints)

\* C11 witness: compute_validation has returned NeedMorePoints and the
\* session is still Validating.
C11_Witness ==
    /\ last.op = "validation_compute"
    /\ last.error = ErrNeedMorePoints
    /\ sessions[last.client].validation_active
    /\ Len(sessions[last.client].validation_points) = 2

\* the validation calls
ValidationOps == {"validation_start", "validation_point", "validation_compute"}

\* the calibration calls
CalibrationOps == {"calibration_start", "calibration_point", "calibration_compute"}

\* client d is Validating in registry ss
ValidatingIn(ss, d) == d \in DOMAIN ss /\ ss[d].validation_active

\* the clients whose session has validation_active = True
Validating == {c \in DOMAIN sessions : sessions[c].validation_active}

\* C12: validation is never gated by the calibration lock: whoever holds
\* the lock, start_validation succeeds exactly when the tracker is
\* connected, collect_validation_point succeeds exactly when the caller is
\* Validating, and compute_validation is turned away as not active exactly
\* when the caller is not Validating; no validation call gets the Busy,
\* the wrong-owner or the calibration-not-active error; and all clients can
\* be Validating at the same time (the witness).
C12_ValidationNotGated ==
    [][ last'.op \in ValidationOps =>
          /\ last'.error \notin {ErrBusy, ErrNotOwner, ErrCalNotActive}
          /\ last'.op = "validation_start" => (last'.success <=> connected)
          /\ last'.op = "validation_point" => (last'.success <=> ValidatingIn(sessions, last'.client))
          /\ last'.op = "validation_compute" => (last'.error = ErrValNotActive <=> ~ValidatingIn(sessions, last'.client))
      ]_vars

\* C12 witness: both clients are Validating while one of them holds the
\* calibration lock, and the last start_validation, made by a client that
\* does not hold the lock, succeeded.
C12_Witness ==
    /\ active_calibration_client # None
    /\ Validating = PairClients
    /\ last.op = "validation_start"
    /\ last.success
    /\ last.client # active_calibration_client

\* the calibration side of client d's session in registry ss (the state of
\* a session that does not exist yet is the state it is created with)
CalStateOf(ss, d) == IF d \in DOMAIN ss THEN <<ss[d].calibration_active, ss[d].calibration_points>> ELSE <<FALSE, <<>> >>

\* the validation side of client d's session in registry ss
ValStateOf(ss, d) == IF d \in DOMAIN ss THEN <<ss[d].validation_active, ss[d].validation_points>> ELSE <<FALSE, <<>> >>

\* C13: start_calibration, collect_calibration_point and
\* compute_calibration leave every session's validationActive flag and
\* validationPoints unchanged; start_validation, collect_validation_point
\* and compute_validation leave every session's calibrationActive flag and
\* calibrationPoints, the lock holder and the tracker's calibration mode
\* unchanged.
C13_CalibrationValidationIndependent ==
    [][ /\ last'.op \in CalibrationOps =>
              \A d \in Clients : ValStateOf(sessions', d) = ValStateOf(sessions, d)
        /\ last'.op \in ValidationOps =>
              /\ \A d \in Clients : CalStateOf(sessions', d) = CalStateOf(sessions, d)
              /\ active_calibration_client' = active_calibration_client
              /\ in_calibration_mode' = in_calibration_mode
      ]_vars

\* C13 witness: a client that is Validating with a point stored has
\* started a calibration and is still Validating with that point.
C13_Witness ==
    /\ last.op = "calibration_start"
    /\ last.success
    /\ sessions[last.client].validation_active
    /\ Len(sessions[last.client].validation_points) >= 1

\* the smaller of two numbers
Smaller(a, b) == IF a < b THEN a ELSE b

\* C14: after k add_sample calls on a buffer of capacity N, with no cleanup
\* and no clear so far, get_size() = min(k, N) and the buffer holds exactly
\* the most recent min(k, N) samples in insertion order (the samples are
\* numbered 0, 1, 2, ... by their device timestamps, so the buffer holds
\* the numbers k - min(k, N), ..., k - 1).
C14_RingKeepsMostRecent ==
    ~cleaned =>
        /\ get_size = Smaller(num_added, MaxCapacity)
        /\ [i \in 1..Len(buffer) |-> buffer[i].timestamp] =
              [i \in 1..Smaller(num_added, MaxCapacity) |-> num_added - Smaller(num_added, MaxCapacity) + i - 1]

\* C14 witness: more samples than the capacity have been added, the last
\* one a clock tick after the one before, and the oldest sample kept is
\* the one numbered k - N.
C14_Witness ==
    /\ ~cleaned
    /\ num_added = MaxCapacity + 2
    /\ Len(buffer) = MaxCapacity
    /\ buffer[1].timestamp = 2
    /\ buffer[Len(buffer)].server_timestamp > buffer[1].server_timestamp

\* the entries of buf stamped at or after the cutoff, in order
NotOlderThan(buf, cutoff) == SelectSeq(buf, LAMBDA s : s.server_timestamp >= cutoff)

RECURSIVE InRange(_, _, _)
InRange(buf, start_time, end_time) ==
    IF buf = <<>> THEN <<>>
    ELSE LET t == IF Head(buf).timestamp = Absent THEN 0 ELSE Head(buf).timestamp
             keep == (start_time = Absent \/ t >= start_time) /\ (end_time = Absent \/ t <= end_time)
         IN (IF keep THEN <<Head(buf)>> ELSE <<>>) \o InRange(Tail(buf), start_time, end_time)

\* C17: get_samples(start_time, end_time) returns, in buffer order, exactly
\* the buffered samples whose device timestamp is >= start_time (when
\* given) and <= end_time (when given), bounds inclusive, and leaves the
\* buffer and the offset window unchanged.
C17_GetSamplesFilters ==
    [][ reply'.type = "get_data" =>
          /\ reply'.samples = InRange(buffer, reply'.start_time, reply'.end_time)
          /\ buffer' = buffer
          /\ bc_offsets' = bc_offsets
      ]_vars

\* C17 witness: a query with both bounds given returned a sample stamped
\* exactly at the bounds and left out an earlier and a later sample of the
\* buffer.
C17_Witness ==
    /\ reply.type = "get_data"
    /\ reply.start_time = 1
    /\ reply.end_time = 1
    /\ Len(reply.samples) = 1
    /\ Len(buffer) = 3
    /\ buffer[1].timestamp = 2
    /\ buffer[2].timestamp = 1
    /\ buffer[3].timestamp = 0

\* the values of the window w
Values(w) == {w[i] : i \in 1..Len(w)}

\* how many entries of w are <= v, resp. >= v
CountAtMost(w, v) == Cardinality({i \in 1..Len(w) : w[i] <= v})
CountAtLeast(w, v) == Cardinality({i \in 1..Len(w) : w[i] >= v})

\* the lower and the upper median of w: the least value with at least half
\* of the entries at or below it, the greatest value with at least half of
\* the entries at or above it (the same value when Len(w) is odd)
LowerMedian(w) == CHOOSE v \in Values(w) : /\ 2 * CountAtMost(w, v) >= Len(w)
                                           /\ \A u \in Values(w) : 2 * CountAtMost(w, u) >= Len(w) => v <= u
UpperMedian(w) == CHOOSE v \in Values(w) : /\ 2 * CountAtLeast(w, v) >= Len(w)
                                           /\ \A u \in Values(w) : 2 * CountAtLeast(w, u) >= Len(w) => v >= u

C16_Original ==
    (reply.client # None /\ reply.request = "marker") =>
        (reply.type = "marker" /\ reply.success)

\* C16, what the code does: every marker message is answered with an error
\* reply, the store is left as it was and the connection stays open.
C16_MarkerAnsweredWithError ==
    [][ (reply'.client # None /\ reply'.request = "marker") =>
          /\ reply'.type = "error"
          /\ reply'.error = ErrNoAddMarker
          /\ buffer' = buffer
          /\ conn_active' = conn_active
      ]_vars

\* C16 witness: a marker message has been answered with an error reply.
C16_Witness ==
    /\ reply.client # None
    /\ reply.request = "marker"
    /\ reply.type = "error"
    /\ conn_active[reply.client]

\* the messages that are not decodable, not a message object, or of an
\* unknown kind
BadRequests == {"invalid_json", "not_object", "unknown"}

\* the messages the runs send whose handlers the store and the clock
\* synchronisation provide
ValidRequests == {"get_current_gaze", "time_sync", "get_device_clock_offset"}

\* C20: a message that is not decodable, is not a message object, or has an
\* unknown kind gets an error reply and leaves every connection as it was,
\* the sender's connection active; a valid message that follows error
\* replies on the same connection is answered with the reply of its kind.
C20_MalformedKeepsConnection ==
    [][ reply'.client # None =>
          /\ reply'.request \in BadRequests =>
                /\ reply'.type = "error"
                /\ conn_active' = conn_active
                /\ conn_active'[reply'.client]
                /\ buffer' = buffer
          /\ (reply'.request \in ValidRequests /\ error_replies[reply'.client] > 0) =>
                /\ reply'.type = reply'.request
                /\ conn_active'[reply'.client]
      ]_vars

\* C20 witness: a connection that got two error replies has its time_sync
\* request answered and is still active.
C20_Witness ==
    /\ reply.client # None
    /\ reply.type = "time_sync"
    /\ error_replies[reply.client] = MaxErrors
    /\ conn_active[reply.client]

\* C19: for every offset set with set_offset and every time t,
\* to_client_time(to_server_time(t)) = t and to_server_time(to_client_time(t))
\* = t, and nothing is clamped: the converted times are t + offset and
\* t - offset even outside the range of the inputs.
C19_RoundTrip ==
    reply.type = "convert" =>
        /\ reply.client_of_server = reply.t
        /\ reply.server_of_client = reply.t
        /\ reply.server_time - reply.t = reply.offset
        /\ reply.t - reply.client_time = reply.offset

\* C19 witness: a round trip with a negative offset set by set_offset whose
\* server time lies below every input time.
C19_Witness ==
    /\ reply.type = "convert"
    /\ reply.synced
    /\ reply.offset < 0
    /\ reply.server_time < 0 - MaxTime
    /\ reply.client_of_server = reply.t

\* ------------------------------------------------ C21: requestId echoed
\* the replies written on connection c (every entry of wire[c] that is not
\* a gaze_data push), oldest first
RECURSIVE RepliesIn(_)
RepliesIn(w) ==
    IF w = <<>> THEN <<>>
    ELSE IF Head(w).type = "gaze_data" THEN RepliesIn(Tail(w))
    ELSE <<Head(w)>> \o RepliesIn(Tail(w))

\* C21 as the specification states it: for every inbound message that
\* carries a requestId, the reply to that message carries the same
\* requestId unchanged, whatever the kind of the message and whether the
\* reply is a normal response or an error response.
C21_Original ==
    \A c \in Clients : \A i \in 1..Len(wire[c]) :
        wire[c][i].request_id # Absent => wire[c][i].requestId = wire[c][i].request_id

\* C21: what the code does: the reply to a message carries the message's
\* requestId exactly when the requestId is present and not 0 and the
\* handling of the message did not raise; every other reply carries no
\* requestId.
C21_EchoedWhenTruthyAndNotRaised ==
    \A c \in Clients : \A i \in 1..Len(wire[c]) :
        LET r == wire[c][i]
        IN r.requestId = IF r.request_id \notin {Absent, 0} /\ r.kind \notin {"marker", "invalid_json"}
                         THEN r.request_id ELSE Absent

\* C21 witness: one connection has an error reply (unknown type) that
\* echoes requestId 1, and a reply to a request with requestId 0 that
\* carries none.
C21_Witness ==
    \E c \in Clients :
        /\ \E i \in 1..Len(wire[c]) : wire[c][i].kind = "unknown" /\ wire[c][i].request_id = 1 /\ wire[c][i].requestId = 1
        /\ \E i \in 1..Len(wire[c]) : wire[c][i].kind = "get_current_gaze" /\ wire[c][i].request_id = 0 /\ wire[c][i].requestId = Absent

\* --------------------------------------------- C22: one message at a time
\* C22: on one connection the messages are processed one at a time in the
\* order they arrived: the k-th reply written on a connection answers the
\* k-th message that arrived on it, and the reply to a message is written
\* before the next message is taken (the messages still queued are exactly
\* the ones after the last reply); the connections interleave freely.
C22_OneAtATimeInOrder ==
    \A c \in Clients :
        LET replies == RepliesIn(wire[c])
        IN /\ \A i \in 1..Len(replies) : replies[i].n = i
           /\ \A j \in 1..Len(inbox[c]) : inbox[c][j].n = Len(replies) + j
           /\ conn_active[c] => Len(replies) + Len(inbox[c]) = arrived[c]

\* C22 witness: connection 1 has answered its two messages in order while
\* the message of connection 2, which arrived between them, is still
\* queued.
C22_Witness ==
    /\ Len(wire[1]) = 2 /\ wire[1][1].n = 1 /\ wire[1][2].n = 2
    /\ wire[1][1].kind # wire[1][2].kind
    /\ Len(inbox[2]) = 1 /\ wire[2] = <<>>

\* --------------------------------------------------- C23: gaze fan-out
\* the push of sample n to connection c has been handed to the event loop
Pushed(q, c, n) == \E i \in 1..Len(q) : q[i].client = c /\ q[i].n = n

\* C23 as the specification states it: while tracking is on, every new
\* sample is appended to the sample store and pushed as gaze_data to each
\* live connection that has started tracking, also when two or more
\* connections have each issued start_tracking.
C23_Original ==
    [][ (tracking /\ num_added' = num_added + 1) =>
            /\ buffer' # <<>> /\ buffer'[Len(buffer')].x = num_added
            /\ \A c \in subscribed : conn_active[c] => Pushed(tasks', c, num_added) ]_vars

\* C23: what the code does: while tracking is on, every new sample is
\* appended to the sample store and pushed to one connection only, the
\* live connection whose start_tracking was processed last; no other
\* connection that has started tracking gets it.
C23_PushedToLastSubscriberOnly ==
    [][ (tracking /\ num_added' = num_added + 1) =>
            /\ buffer' # <<>> /\ buffer'[Len(buffer')].x = num_added
            /\ \A c \in Clients : Pushed(tasks', c, num_added) <=> (c = gaze_callback /\ conn_active[c]) ]_vars

\* C23 witness: two live connections have started tracking and a sample
\* has just been delivered: it is pushed to one of them only.
C23_Witness ==
    /\ tracking
    /\ subscribed = StreamClients
    /\ \A c \in StreamClients : conn_active[c]
    /\ reply.type = "on_gaze_data"
    /\ \E c \in StreamClients : Pushed(tasks, c, num_added - 1)
    /\ \E c \in StreamClients : ~Pushed(tasks, c, num_added - 1)

\* ------------------------------------------------ C24: gaze_data in order
\* the sample numbers of the gaze_data messages written on a connection,
\* oldest first
RECURSIVE GazeIn(_)
GazeIn(w) ==
    IF w = <<>> THEN <<>>
    ELSE IF Head(w).type = "gaze_data" THEN <<Head(w).n>> \o GazeIn(Tail(w))
    ELSE GazeIn(Tail(w))

C25_Original ==
    [][ \A c \in Clients : (conn_active[c] /\ ~conn_active'[c] /\ tracking) =>
            (tracking' <=> subscribed \ {c} # {}) ]_vars

\* C25: what the code does: when a connection closes while the tracker is
\* tracking, production is stopped and the manager's callback is dropped,
\* whoever else has started tracking.
C25_CloseAlwaysStopsTracking ==
    [][ \A c \in Clients : (conn_active[c] /\ ~conn_active'[c] /\ tracking) =>
            (~tracking' /\ gaze_callback' = None) ]_vars

\* C25 witness: a connection has just closed, another live connection has
\* started tracking and has not stopped it, and production is off.
C25_Witness ==
    /\ reply.type = "closed"
    /\ ~tracking
    /\ \E c \in subscribed : c # reply.client /\ conn_active[c]

\* ------------------------------------------ C27: nothing sent after close
\* C27: once a connection is closed (its active flag is false), nothing
\* more is written on it, neither a reply nor a gaze_data push that was
\* scheduled before the close.
C27_NothingWrittenAfterClose ==
    [][ \A c \in Clients : ~conn_active[c] => wire'[c] = wire[c] ]_vars

\* C27 witness: a gaze_data push scheduled before its connection closed
\* has just been run after the close and wrote nothing.
C27_Witness ==
    /\ reply.type = "gaze_data_dropped"
    /\ ~conn_active[reply.client]
    /\ GazeIn(wire[reply.client]) # <<>>

\* ------------------------------------------- C26: clean-up on every close
\* C26: whenever the message loop of a connection ends, by a graceful
\* close, an abrupt disconnect or an unexpected error, remove_session is
\* invoked for that connection's client; from then on no session exists
\* for the client and the client does not hold the calibration lock.
C26_CloseRemovesSession ==
    [][ \A c \in Clients :
            /\ (conn_active[c] /\ ~conn_active'[c]) => (last'.op = "remove_session" /\ last'.client = c)
            /\ ~conn_active'[c] => (c \notin DOMAIN sessions' /\ active_calibration_client' # c) ]_vars

\* C26 witness: the loop of the connection that held the calibration lock
\* has just ended with an unexpected error; its session is gone and the
\* lock was released, while the other connection still has a session.
C26_Witness ==
    /\ reply.type = "closed" /\ reply.how = "error"
    /\ last.op = "remove_session" /\ last.client = reply.client
    /\ last.leave # "na"
    /\ reply.client \notin DOMAIN sessions
    /\ active_calibration_client = None
    /\ DOMAIN sessions # {}

\* ------------------------------------------------ C28: pointQuality
\* C28: when compute_calibration reaches the tracker, pointQuality pairs
\* the i-th collected point with the i-th per-point error exactly when the
\* tracker reports success and returns as many per-point errors as there
\* are collected points; in every other case pointQuality is the empty
\* list, and a mismatch of the counts is not an error (the response still
\* reports the tracker's success).
C28_PointQualityPairsWhenCountsMatch ==
    [][ \A c \in Clients : \A oc \in Outcomes : \A ol \in Outcomes : \A n \in 0..(MaxCalPoints + 1) :
            (owns_calibration(c) /\ ComputeCalibration(c, oc, n, ol)) =>
                LET points == sessions[c].calibration_points
                IN /\ last'.pointQuality =
                        IF oc = "ok" /\ n = Len(points)
                        THEN [i \in 1..n |-> [point |-> points[i], error |-> i]]
                        ELSE <<>>
                   /\ oc = "ok" => (last'.success /\ last'.error = ErrNone) ]_vars

\* C28 witness: a successful compute_calibration over two different points
\* with two per-point errors has paired them in collection order.
C28_Witness ==
    /\ last.op = "calibration_compute" /\ last.success
    /\ Len(last.pointQuality) = 2
    /\ last.pointQuality[1].error = 1 /\ last.pointQuality[2].error = 2
    /\ last.pointQuality[1].point # last.pointQuality[2].point
    /\ last.pointQuality[1].point = sessions[last.client].calibration_points[1]

\* ---------------------------------------------------- C29: pointData
\* the samples of the gaze list g that are valid and come after the first
\* floor(0.3 * N) samples, N the length of g
ValidAfterSkip(g) == {j \in 1..Len(g) : j > (3 * Len(g)) \div 10 /\ (g[j].leftValid \/ g[j].rightValid)}

\* the validation points of vps that still have a valid sample after the
\* skip, by their position in collection order
KeptPoints(vps) == {i \in 1..Len(vps) : ValidAfterSkip(vps[i].gaze_samples) # {}}

\* the k-th smallest member of the set S of positions
Kth(S, k) == CHOOSE i \in S : Cardinality({j \in S : j <= i}) = k

\* C29: on success, pointData has exactly one entry, in collection order,
\* for each validation point that still has at least one valid sample
\* after the first floor(0.3 * N) of its N samples are discarded; points
\* with none are left out; an entry reports the point, N, the number of
\* valid samples kept, and numSamplesSkipped = floor(0.3 * N).
C29_PointDataPerKeptPoint ==
    (last.op = "validation_compute" /\ last.success) =>
        LET vps == sessions[last.client].validation_points
            kept == KeptPoints(vps)
        IN /\ Len(last.pointData) = Cardinality(kept)
           /\ \A k \in 1..Len(last.pointData) :
                LET vp == vps[Kth(kept, k)]
                    entry == last.pointData[k]
                IN /\ entry.point = [x |-> vp.x, y |-> vp.y]
                   /\ entry.numSamplesTotal = Len(vp.gaze_samples)
                   /\ entry.numSamplesSkipped = (3 * Len(vp.gaze_samples)) \div 10
                   /\ entry.numSamples = Cardinality(ValidAfterSkip(vp.gaze_samples))

\* C29 witness: a successful compute_validation over three points of which
\* the second has its only valid sample inside the skipped prefix: the
\* result has two entries, for the first and the third point, which are
\* different targets, each with one of four samples skipped.
C29_Witness ==
    /\ last.op = "validation_compute" /\ last.success
    /\ Len(sessions[last.client].validation_points) = 3
    /\ KeptPoints(sessions[last.client].validation_points) = {1, 3}
    /\ Len(sessions[last.client].validation_points[2].gaze_samples) = 4
    /\ Len(last.pointData) = 2
    /\ last.pointData[1].point # last.pointData[2].point
    /\ last.pointData[1].numSamplesSkipped = 1

\* ------------------------------------------------- C30: sanitized payloads
\* what JSON shows of a value: a leaf as it is, a list or tuple as an
\* array, a dict or an object's attributes as an object
JsonLabel(v) ==
    IF v.t \in {"list", "tuple"} THEN [t |-> "array", v |-> Len(v.items)]
    ELSE IF v.t \in {"dict", "object"} THEN [t |-> "object", v |-> Len(v.items)]
    ELSE [t |-> v.t, v |-> v.v]

\* the nodes of a value: each with the path of positions that leads to it
RECURSIVE Nodes(_, _)
Nodes(v, path) ==
    {<<path, JsonLabel(v)>>} \cup UNION {Nodes(v.items[i], Append(path, i)) : i \in 1..Len(v.items)}

\* a NaN or infinite float
NonFinite(label) == label.t \in {"nan", "inf", "ninf"}

\* C30: what is written for a payload is the payload sanitized: every NaN
\* or infinite number, at any nesting depth, is replaced by null, and
\* every other value is where it was and what it was; sanitizing the
\* result again changes nothing.
C30_PayloadSanitized ==
    \A c \in SanClients : \A i \in 1..Len(wire[c]) :
        wire[c][i].type = "payload" =>
            LET data == wire[c][i].data
            IN /\ Nodes(data, <<>>) =
                    {<<n[1], IF NonFinite(n[2]) THEN [t |-> "null", v |-> 0] ELSE n[2]>> : n \in Nodes(payload, <<>>)}
               /\ \A n \in Nodes(data, <<>>) : ~NonFinite(n[2])
               /\ sanitize_for_json(data) = data

\* C30 witness: a payload with a NaN two levels down, next to a finite
\* float, has been written with null in its place and the float kept.
C30_Witness ==
    /\ wire[1] # <<>>
    /\ <<<<1, 1>>, [t |-> "nan", v |-> 0]>> \in Nodes(payload, <<>>)
    /\ <<<<1, 2>>, [t |-> "float", v |-> 1]>> \in Nodes(payload, <<>>)
    /\ <<<<1, 1>>, [t |-> "null", v |-> 0]>> \in Nodes(wire[1][1].data, <<>>)
    /\ <<<<1, 2>>, [t |-> "float", v |-> 1]>> \in Nodes(wire[1][1].data, <<>>)
    /\ <<<<2>>, [t |-> "inf", v |-> 0]>> \in Nodes(payload, <<>>)

\* ------------------------------------------------ C31: start_validation
\* C31: start_validation fails and leaves the registry as it was when the
\* tracker is not connected; otherwise it succeeds, the caller's session
\* is Validating and its validation points are empty, whatever an earlier
\* validation had collected.
C31_StartValidation ==
    [][ \A c \in Clients : StartValidation(c) =>
            IF ~connected
            THEN /\ ~last'.success /\ last'.error = ErrNotConnected
                 /\ sessions' = sessions
            ELSE /\ last'.success
                 /\ c \in DOMAIN sessions'
                 /\ sessions'[c].validation_active
                 /\ sessions'[c].validation_points = <<>> ]_vars

\* C31 witness: start_validation has just succeeded on a connected
\* tracker: the caller is Validating with no points.
C31_Witness ==
    /\ connected
    /\ last.op = "validation_start" /\ last.success
    /\ sessions[last.client].validation_active
    /\ sessions[last.client].validation_points = <<>>

\* ------------------------------------- C32: validation calls need Validating
\* the validation points of client c in the registry ss (none without a
\* session)
ValPointsOf(ss, c) == IF c \in DOMAIN ss THEN ss[c].validation_points ELSE <<>>

\* C32: collect_validation_point and compute_validation are rejected with
\* "Validation not active" unless the caller's session is Validating; an
\* accepted collect_validation_point appends exactly one {x, y, timestamp,
\* gaze_samples} entry to the caller's validation points and invokes no
\* tracker primitive; a rejected call appends nothing.
C32_ValidationCallsNeedValidating ==
    [][ \A c \in Clients :
          /\ \A p \in PointInputs, ts \in TimestampInputs, g \in GazeInputs :
                CollectValidationPoint(c, p, ts, g) =>
                    IF ValidatingIn(sessions, c)
                    THEN /\ last'.success
                         /\ ValPointsOf(sessions', c) = Append(ValPointsOf(sessions, c), [x |-> p.x, y |-> p.y, timestamp |-> ts, gaze_samples |-> g])
                         /\ last'.adapter = "na" /\ last'.leave = "na"
                         /\ in_calibration_mode' = in_calibration_mode
                    ELSE /\ ~last'.success /\ last'.error = ErrValNotActive
                         /\ ValPointsOf(sessions', c) = ValPointsOf(sessions, c)
          /\ ComputeValidation(c) =>
                /\ ~ValidatingIn(sessions, c) =>
                      (~last'.success /\ last'.error = ErrValNotActive /\ ValPointsOf(sessions', c) = ValPointsOf(sessions, c))
                /\ ValidatingIn(sessions, c) => last'.error # ErrValNotActive ]_vars

\* C32 witness: an accepted collect_validation_point has just stored the
\* second point of a validating session, with its gaze samples.
C32_Witness ==
    /\ last.op = "validation_point" /\ last.success
    /\ Len(sessions[last.client].validation_points) = 2
    /\ sessions[last.client].validation_points[2].x = last.point.x
    /\ sessions[last.client].validation_points[2].gaze_samples # <<>>
    /\ sessions[last.client].validation_points[1] # sessions[last.client].validation_points[2]

\* --------------------------------------- C33: calibration mode and the lock
\* C33: while the tracker's calibration primitives succeed, the tracker is
\* in calibration mode if and only if some client holds the calibration
\* lock: every release of the lock, by compute_calibration or by the
\* holder's disconnect, takes the tracker out of calibration mode, and a
\* call or disconnect of a client that does not hold the lock leaves the
\* mode as it is.
C33_ModeIffLockHeld ==
    [][ /\ in_calibration_mode' <=> (active_calibration_client' # None)
        /\ (active_calibration_client # None /\ last'.client # active_calibration_client) =>
                (in_calibration_mode' = in_calibration_mode /\ active_calibration_client' = active_calibration_client) ]_vars

\* C33 witness: the holder's disconnect has just released the lock and the
\* tracker is out of calibration mode; the other client has a session.
C33_Witness ==
    /\ last.op = "remove_session" /\ last.leave = "ok"
    /\ active_calibration_client = None
    /\ ~in_calibration_mode
    /\ DOMAIN sessions # {}

\* ------------------------------------ C34: a calibrating session is the holder's
\* C34: in every reachable state a session with calibration_active = true
\* belongs to the client recorded as lock holder; hence a
\* collect_calibration_point or compute_calibration call that is rejected
\* by a guard is rejected by "Calibration not active", never by the
\* ownership guard.
C34_ActiveSessionIsHolders ==
    /\ \A c \in DOMAIN sessions : sessions[c].calibration_active => active_calibration_client = c
    /\ (last.op \in {"calibration_point", "calibration_compute"} /\ last.adapter = "na") =>
            (~last.success /\ last.error = ErrCalNotActive)
    /\ last.error # ErrNotOwner

\* C34 witness: a collect_calibration_point of a client that does not hold
\* the lock has just been rejected with "Calibration not active" while the
\* other client is calibrating.
C34_Witness ==
    /\ last.op = "calibration_point" /\ last.adapter = "na"
    /\ last.error = ErrCalNotActive
    /\ active_calibration_client # None
    /\ active_calibration_client # last.client
    /\ sessions[active_calibration_client].calibration_active

\* ---------------------------------- C35: compute_calibration by a non-holder
\* C35: compute_calibration called by a client that does not hold the
\* calibration lock returns success = false and leaves the lock holder,
\* the holder's session and the tracker's calibration mode unchanged; no
\* adapter primitive is invoked for it (the clean-up that releases the
\* lock runs only for calls that passed the guards).
C35_NonHolderComputeChangesNothing ==
    [][ \A c \in Clients : \A oc \in Outcomes \cup {"na"} : \A ol \in Outcomes \cup {"na"} : \A n \in 0..MaxCalPoints :
            (active_calibration_client # c /\ ComputeCalibration(c, oc, n, ol)) =>
                /\ ~last'.success
                /\ last'.adapter = "na" /\ last'.leave = "na"
                /\ active_calibration_client' = active_calibration_client
                /\ in_calibration_mode' = in_calibration_mode
                /\ active_calibration_client # None =>
                        (/\ active_calibration_client \in DOMAIN sessions'
                         /\ sessions'[active_calibration_client] = sessions[active_calibration_client]) ]_vars

\* C35 witness: a compute_calibration of the client that does not hold the
\* lock has just been rejected; the holder is still calibrating with a
\* point collected and the tracker is in calibration mode.
C35_Witness ==
    /\ last.op = "calibration_compute" /\ ~last.success /\ last.adapter = "na"
    /\ active_calibration_client # None
    /\ active_calibration_client # last.client
    /\ sessions[active_calibration_client].calibration_active
    /\ sessions[active_calibration_client].calibration_points # <<>>
    /\ in_calibration_mode

\* ------------------------------- C36: buffer order with several producers
\* the samples of buf are in non-decreasing server_timestamp order
ServerTimeOrdered(buf) ==
    \A i \in 1..Len(buf) : \A j \in 1..Len(buf) :
        i < j => buf[i].server_timestamp <= buf[j].server_timestamp

\* C36 (the claim as stated): in every reachable state the buffered
\* samples are in non-decreasing server_timestamp order from head to tail,
\* also when add_sample is called from more than one thread at a time.
C36_Original == ServerTimeOrdered(buffer)


\* ------------------------------- C37: cleanup and the offset window
\* C37: cleanup_old_data never modifies the offset window, so
\* get_device_clock_offset returns the same estimate immediately before and
\* after a pass, also when the pass empties the buffer; a non-empty window
\* becomes empty only by clear().
C37_CleanupKeepsOffsets ==
    [][ /\ CleanupOldData =>
              /\ bc_offsets' = bc_offsets
              /\ get_device_clock_offset(bc_offsets') = get_device_clock_offset(bc_offsets)
        /\ (bc_offsets # <<>> /\ bc_offsets' = <<>>) => Clear ]_vars

\* C37 witness: a cleanup pass has just emptied a buffer that held samples
\* and the offset window still holds their offsets.
C37_Witness ==
    /\ reply.type = "cleanup_old_data"
    /\ num_added > 0
    /\ buffer = <<>>
    /\ Len(bc_offsets) >= 2
    /\ get_device_clock_offset(bc_offsets).sample_count = Len(bc_offsets)


\* ------------------------------- C38: start_calibration by the holder
\* C38: start_calibration by the client that already holds the lock is not
\* rejected as busy: adapter.start_calibration is invoked again, the lock
\* holder stays that client whatever the adapter answers, and on success
\* the client's calibration_points are reset to empty with the session
\* calibrating.
C38_HolderMayRestart ==
    [][ \A c \in Clients : \A o \in Outcomes \cup {"na"} :
            (active_calibration_client = c /\ StartCalibration(c, o)) =>
                /\ last'.error # ErrBusy
                /\ last'.adapter = o /\ o \in Outcomes
                /\ active_calibration_client' = c
                /\ last'.success <=> (o = "ok")
                /\ last'.success =>
                      /\ sessions'[c].calibration_active
                      /\ sessions'[c].calibration_points = <<>>
                /\ ~last'.success => sessions' = sessions ]_vars

\* C38 witness: the holder, with a point already collected, called
\* start_calibration again; the call reached the adapter, which refused,
\* and the client still holds the lock.
C38_Witness ==
    /\ last.op = "calibration_start"
    /\ last.adapter \in {"fail", "raise"}
    /\ active_calibration_client = last.client
    /\ sessions[last.client].calibration_active
    /\ sessions[last.client].calibration_points # <<>>


ShutdownOver == server.shutdown \in {"done", "raised"}

\* C40 (the claim as stated): when shutdown is over, every connection that
\* was in the client set when shutdown began has been closed, although the
\* handlers remove themselves from the set while shutdown goes over it; the
\* tracker produces no samples unless a connection still subscribed asks
\* for them; and the periodic loop makes no cleanup pass beyond the one in
\* progress and ends only once running is False.
C40_Original ==
    /\ ShutdownOver => server.at_begin \cap server.open = {}
    /\ (ShutdownOver /\ subscribed = {}) => ~tracking
    /\ server.passes <= 1
    /\ server.loop = "exited" => ~server.running

====
